---- MODULE Spec2Model ----
(***************************************************************************)
(* A model of the coordinators of the locator service and their clients:   *)
(*   - the Tile38 master/replica supervisor (tasks/t38/master_replica.rs)  *)
(*     and the command wrappers that call it (db/t38/cmd.rs),              *)
(*   - the Yandex LBS API-key scheduler (tasks/yandex.rs) and the LBS      *)
(*     requests that use its keys (lbs/yandex.rs, lbs/yandex_cell.rs),     *)
(*   - the batch ingestor of reports (services/submission/process.rs).     *)
(* Each handler of a message loop is one atomic action.  The Tile38        *)
(* instances and the LBS are the environment: they go down, come back and  *)
(* answer as they like.                                                    *)
(***************************************************************************)
EXTENDS Integers, Sequences, FiniteSets, TLC

(***************************************************************************)
(* Bounds.                                                                 *)
(***************************************************************************)
\* number of times the environment may stop or restart a Tile38 instance
MaxFaults == 3
\* the same, in the specification with fairness
MaxFaultsLive == 2
\* number of concurrent callers of get_conection
NumCallers == 1
\* number of callers that report a failure of the master at the same time
NumReporters == 2
\* number of times the environment may stop or restart a Tile38 instance while
\* they do
MaxFaultsConcurrent == 2
\* stands for COUNT_ATTEMPTS_RECOVER (600 in master_replica.rs:19), scaled
COUNT_ATTEMPTS_RECOVER == 1
\* stands for COUNT_ATTEMPTS_RUN_CMD (600 in db/t38/cmd.rs:10), scaled
COUNT_ATTEMPTS_RUN_CMD == 1
\* number of times the environment may stop or restart a Tile38 instance while
\* commands run
MaxFaultsCmd == 2
\* number of rows in the table report
MaxReports == 3
\* number of reports of one device
MaxTracked == 6
\* largest timestamp of a report
MaxTs == 3
\* number of access points
NumMacs == 2
\* positions lie on a line, at 1..MaxPoint
MaxPoint == 3
\* config.locator.max_distance_cell, in the unit of the positions
max_distance_cell == 1
\* config.yandex_lbs.max_distance_in_cluster, in the unit of the positions
yandex_max_distance_in_cluster == 1
\* number of access points of a query the LBS is asked about
MaxAps == 2
\* latitudes and longitudes are whole degrees in -MaxDeg..MaxDeg
MaxDeg == 1
\* accuracies are whole metres in 1..MaxAccuracy
MaxAccuracy == 2
\* config.locator.max_distance_in_cluster, in the unit of the positions
locator_max_distance_in_cluster == 1
\* config.locator.tasks_processing_reports_count: number of online workers
NumWorkers == 2
\* the ingestor starts no run once the record of the access point weighs more
MaxCachedWeight == 4
\* detect_outliers is called on 3..MaxCandidates records
MaxCandidates == 5
\* and their positions lie at 1..MaxPlace
MaxPlace == 5
\* let threshold = 500.0 (geolocate_public.rs:217), in the unit of the positions
threshold == 1
\* MAX_DISTANCE (60 000 m in constants.rs:11), in the unit of the positions
MAX_DISTANCE == 1
\* MAX_SCOOTER_SPEED (25 km/h in constants.rs:10), in units of position per hour
MAX_SCOOTER_SPEED == 1
\* the latest record of a track is 1..MaxElapsed hours old
MaxElapsed == 2
\* the weight of an access point in the local average is 0 (underflow) to MaxWeight
MaxWeight == 1
\* observations of a transmitter after the one that creates its record
MaxUpdates == 2
\* latitudes are whole degrees in -MaxLat..MaxLat, longitudes in 0..MaxLon
MaxLat == 1
MaxLon == 1
\* the weight of an observation is 1..MaxObsWeight
MaxObsWeight == 2
\* signal strengths are -MaxStrength..-1
MaxStrength == 2
\* mac.len() != 12 (custom_deserialize.rs:50)
MacLength == 12
\* const TRACK_SIZE_THRESHOLD: u16 = 3, services/submission/report.rs:8
TRACK_SIZE_THRESHOLD == 3
\* largest number of keys in yandex_lbs.api_keys
MaxKeys == 3
\* number of LBS requests that wait for a key at the same time
NumClients == 1
\* number of InvalidApiKey messages the LBS requests may send
MaxInvalid == 2
\* the same, in the specification with fairness
MaxInvalidLive == 2

\* number of LBS requests that run at the same time
NumRequests == 2
\* config.yandex_lbs.rate_limit
rate_limit == 1
\* number of LBS requests that start
MaxCalls == 2
\* let count_attempts = 5, lbs/yandex.rs:273 and lbs/yandex_cell.rs:201
count_attempts == 5

\* config.t38.instances, in the order of the configuration file
InstanceList == <<"A", "B", "C">>
Instances == {InstanceList[k] : k \in 1..Len(InstanceList)}
NoNode == "none"
Callers == 1..NumCallers

Position(o, n) == CHOOSE k \in DOMAIN o : o[k] = n

\* the orders in which a HashMap over the instances may iterate; the second and
\* the third instance start alike, so one of two mirrored orders is enough
Orders == {o \in [1..Cardinality(Instances) -> Instances] :
             /\ \A n \in Instances : \E k \in DOMAIN o : o[k] = n
             /\ Position(o, InstanceList[2]) < Position(o, InstanceList[3])}

VARIABLES
  phase,                  \* "startup", "serving" or "exited" (exit(1))
  status,                 \* environment: instance -> "down" | "loading" | "up"
  follows,                \* environment: instance -> the node it follows, NoNode for a master
  budget,                 \* number of Kill and Revive steps the environment has left
  t38_config_file,        \* t38_config.json
  t38_nodes,              \* HashMap<String, T38Node>; absent keys are outside the domain
  nodeOrder,              \* iteration order of t38_nodes
  t38_master_connection,  \* the node the stored master connection leads to
  rx,                     \* the flume channel of T38ConnectionManageMessage
  reply,                  \* caller -> "idle" | "waiting" (for the one-shot reply)
  tasks,                  \* recovery tasks spawned by recover_failed_node
  lastPromoted,           \* history: the node adopted by the latest failover
  lastAnswer,             \* history: the latest GetConnection handled
  reinserted              \* history: the nodes re-inserted by RecoverFailedNode since they failed

t38vars == <<phase, status, follows, budget, t38_config_file, t38_nodes, nodeOrder,
             t38_master_connection, rx, reply, tasks, lastPromoted, lastAnswer,
             reinserted>>

VARIABLES
  api_keys,               \* number of keys in yandex_lbs.api_keys
  active_api_keys,        \* the indices in HashMap<u8, String>
  count_keys,
  index_key,
  invalid_api_keys,       \* the indices in the reactivation worker's HashMap
  temp_keys,              \* the keys the running hourly sweep has yet to probe
  probing,                \* the key whose probe request is in flight: {} or {i}
  yrx,                    \* the flume channel of YandexApiMessage
  rx_inv_key,             \* the flume channel of InvalidApiKey to the worker
  handed,                 \* the keys handed out so far: an LBS request may hold any of them
  invalidLeft,            \* number of InvalidApiKey messages the requests may still send
  lastGet,                \* history: the latest GetApiKey reply since the latest key event
  streak,                 \* history: number of replies since the latest key event, capped
  blocked,                \* history: InvalidApiKey processed and no ValidApipKey since
  restored                \* history: ValidApipKey processed and no InvalidApiKey since

yvars == <<api_keys, active_api_keys, count_keys, index_key, invalid_api_keys,
           temp_keys, probing, yrx, rx_inv_key, handed, invalidLeft, lastGet, streak, blocked,
           restored>>

VARIABLE
  cmd                     \* the exec_cmd or query_cmd call in progress

VARIABLES
  lbs,                    \* LBS request -> its position, key, attempt and result
  permits,                \* permits left in the semaphore rl_app.yandex_lbs
  calls                   \* number of LBS requests that may still start

lvars == <<lbs, permits, calls>>

VARIABLES
  report,                 \* the committed table report: id -> row
  txn,                    \* the rows as the open transaction sees them
  batch                   \* the run of process::run in progress

bvars == <<report, txn, batch>>

VARIABLES
  track,                  \* the records stored under the device in device:whoosh
  wtp,                    \* the call of process_wifi_track in progress
  tracked                 \* number of reports of the device processed so far

kvars == <<track, wtp, tracked>>

VARIABLES
  lbs_wifi,               \* the collection lbs:yandex:wifi: MAC -> the cached LbsRecord
  ext,                    \* the call of extract_from_report in progress
  answer                  \* history: the answer of an external service the latest step stored

wvars == <<lbs_wifi, ext, answer>>

VARIABLES
  yandex_lbs_responses,   \* the answers of the LBS a query is left with after the outlier filter
  estimated               \* the response of the query that falls back to them

evars == <<yandex_lbs_responses, estimated>>

VARIABLE
  loc                     \* the call of the locate service in progress and its response

VARIABLES
  tl,                     \* the TransmitterLocation of one transmitter
  observations            \* history: the observations new and update were called with

tvars == <<tl, observations>>

VARIABLES
  macAddress,             \* the string of a field macAddress of a request
  deserialized            \* what mac_address made of it

mvars == <<macAddress, deserialized>>

VARIABLE
  det                     \* a call of detect_outliers on three or more records

dvars == <<det>>

VARIABLE
  wifi,                   \* the record of one access point in the collection "wifi"
  online                  \* the online workers that process a report with this access point

ovars == <<wifi, online>>

\* the values of the data types
pvars == <<tvars, mvars, dvars, ovars>>

\* the state of the services that process reports and answer queries
svars == <<kvars, wvars, evars, loc, pvars>>

\* the state of the coordinators
cvars == <<t38vars, yvars, cmd, lvars, bvars>>

vars == <<t38vars, yvars, cmd, lvars, bvars, svars>>

(***************************************************************************)
(* Tile38 instances as the supervisor sees them.                           *)
(***************************************************************************)
\* a TCP connection can be opened (a loading instance accepts connections)
CanConnect(n) == status[n] # "down"

\* a command sent to the instance is answered with success
CmdOk(n) == status[n] = "up"

\* ROLE: the first element of the reply
get_role(f, n) == IF f[n] = NoNode THEN "master" ELSE "slave"

\* FOLLOW no one
follow_no_one(f, n) == [f EXCEPT ![n] = NoNode]

\* FOLLOW host port
follow(f, n, m) == [f EXCEPT ![n] = m]

T38Node(role, state) == [role |-> role, state |-> state]

Insert(nodes, n, node) ==
  [m \in DOMAIN nodes \cup {n} |-> IF m = n THEN node ELSE nodes[m]]

NoFile == [exists |-> FALSE, master |-> NoNode, slave |-> NoNode]
T38Config(m, s) == [exists |-> TRUE, master |-> m, slave |-> s]

(***************************************************************************)
(* manage_master_replica: start-up reconciliation, lines 38-177.           *)
(***************************************************************************)
\* one iteration of `for instance in instances`; acc = [nodes, conn, follows]
StartupInstance(acc, n, t38c) ==
  IF CanConnect(n)
  THEN IF CmdOk(n)
       THEN LET r == get_role(acc.follows, n) IN
            IF t38c.exists
            THEN IF r = "master"
                 THEN IF n # t38c.master
                      THEN \* the file takes precedence: demote the live master
                           LET f1 == IF CanConnect(t38c.master) /\ CmdOk(t38c.master)
                                     THEN follow_no_one(acc.follows, t38c.master)
                                     ELSE acc.follows
                               f2 == follow(f1, n, t38c.master)
                           IN [nodes   |-> Insert(acc.nodes, n, T38Node("slave", "active")),
                               conn    |-> acc.conn,
                               follows |-> f2]
                      ELSE [nodes   |-> Insert(acc.nodes, n, T38Node("master", "active")),
                            conn    |-> n,
                            follows |-> acc.follows]
                 ELSE IF n # t38c.slave
                      THEN [nodes   |-> Insert(acc.nodes, n, T38Node("master", "active")),
                            conn    |-> n,
                            follows |-> acc.follows]
                      ELSE [nodes   |-> Insert(acc.nodes, n, T38Node("slave", "active")),
                            conn    |-> acc.conn,
                            follows |-> acc.follows]
            ELSE [nodes   |-> Insert(acc.nodes, n, T38Node(r, "active")),
                  conn    |-> IF r = "master" THEN n ELSE acc.conn,
                  follows |-> acc.follows]
       ELSE acc  \* get_role failed: the instance is not recorded at all
  ELSE \* can't determine the role of the instance
       [nodes   |-> Insert(acc.nodes, n, T38Node("none", "inactive")),
        conn    |-> acc.conn,
        follows |-> acc.follows]

RECURSIVE StartupLoop(_, _, _)
StartupLoop(acc, k, t38c) ==
  IF k > Len(InstanceList) THEN acc
  ELSE StartupLoop(StartupInstance(acc, InstanceList[k], t38c), k + 1, t38c)

EmptyNodes == [m \in {} |-> T38Node("none", "inactive")]

\* the whole start-up: read the file, visit every instance, exit(1) without a master
Startup ==
  /\ phase = "startup"
  /\ LET acc == StartupLoop([nodes |-> EmptyNodes, conn |-> NoNode, follows |-> follows],
                            1, t38_config_file)
     IN /\ t38_nodes' = acc.nodes
        /\ t38_master_connection' = acc.conn
        /\ follows' = acc.follows
        /\ phase' = IF acc.conn = NoNode THEN "exited" ELSE "serving"
  /\ UNCHANGED <<yvars, cmd, lvars, bvars, svars>>
  /\ UNCHANGED <<status, budget, t38_config_file, nodeOrder, rx, reply, tasks,
                 lastPromoted, lastAnswer, reinserted>>

(***************************************************************************)
(* get_node_by_role, lines 319-344: the first node, in the map's iteration *)
(* order, whose role matches; a node without a role is asked for it.       *)
(***************************************************************************)
RECURSIVE GetNodeFrom(_, _, _)
GetNodeFrom(nodes, role_name, k) ==
  IF k > Len(nodeOrder) THEN [nodes |-> nodes, node |-> NoNode]
  ELSE LET key == nodeOrder[k] IN
       IF key \notin DOMAIN nodes THEN GetNodeFrom(nodes, role_name, k + 1)
       ELSE IF nodes[key].role # "none"
            THEN IF nodes[key].role = role_name
                 THEN [nodes |-> nodes, node |-> key]
                 ELSE GetNodeFrom(nodes, role_name, k + 1)
            ELSE IF CanConnect(key) /\ CmdOk(key)
                 THEN LET r      == get_role(follows, key)
                          nodes1 == Insert(nodes, key, T38Node(r, nodes[key].state))
                      IN IF r = role_name
                         THEN [nodes |-> nodes1, node |-> key]
                         ELSE GetNodeFrom(nodes1, role_name, k + 1)
                 ELSE GetNodeFrom(nodes, role_name, k + 1)

get_node_by_role(nodes, role_name) == GetNodeFrom(nodes, role_name, 1)

(***************************************************************************)
(* The message loop, lines 184-313.  An outcome is what one handler does:  *)
(* sent is what goes into the caller's one-shot channel ("dropped" when    *)
(* the sender is dropped without a send, "none" for None, else the node    *)
(* the connection leads to).                                               *)
(***************************************************************************)
Outcome(nodes, conn, f, file, spawned, sent) ==
  [nodes |-> nodes, conn |-> conn, follows |-> f, file |-> file,
   spawned |-> spawned, sent |-> sent]

RecoveryTask(failed, new_master) ==
  [failed |-> failed, master |-> new_master, pc |-> "probe", i |-> 0]

\* lines 221-269: the replica accepted FOLLOW no one
Promote(nodes, mn, sn) ==
  LET nodes1 == Insert(nodes, sn, T38Node("master", nodes[sn].state))
      nodes2 == Insert(nodes1, mn, T38Node("slave", nodes[mn].state))
  IN Outcome(nodes2, sn, follow_no_one(follows, sn), T38Config(sn, mn),
             {RecoveryTask(mn, sn)}, sn)

\* a failover that promotes the replica it finds without connecting to it
Failover_Unprobed(nodes, mn) ==
  LET found == get_node_by_role(nodes, "slave")
  IN IF found.node # NoNode
     THEN Promote(found.nodes, mn, found.node)
     ELSE Outcome(found.nodes, t38_master_connection, follows, t38_config_file, {}, "none")

\* lines 202-280: the master did not answer the probe
Failover(nodes, mn) ==
  LET found == get_node_by_role(nodes, "slave")
      sn    == found.node
      keep  == Outcome(found.nodes, t38_master_connection, follows, t38_config_file, {}, "none")
  IN IF sn # NoNode
     THEN IF CanConnect(sn)
          THEN IF CmdOk(sn) THEN Promote(found.nodes, mn, sn) ELSE keep
          ELSE keep
     ELSE keep

\* lines 189-298: GetConnection with an error
RefreshConnection ==
  LET found == get_node_by_role(t38_nodes, "master")
      mn    == found.node
  IN IF mn # NoNode
     THEN IF ~CanConnect(mn)
          THEN Failover(found.nodes, mn)
          ELSE Outcome(found.nodes, mn, follows, t38_config_file, {}, mn)
     ELSE Outcome(found.nodes, t38_master_connection, follows, t38_config_file, {}, "none")

\* lines 299-305: GetConnection without an error
StoredConnection ==
  Outcome(t38_nodes, t38_master_connection, follows, t38_config_file, {},
          IF t38_master_connection # NoNode THEN t38_master_connection ELSE "dropped")

\* get_conection, t38.rs lines 53-65: what the caller makes of the one-shot channel
ReceiveReply(sent) == IF sent \in Instances THEN sent ELSE "error"

\* a caller that stays blocked unless a connection arrives
AwaitReply_OnlyConnection(sent) == IF sent \in Instances THEN "idle" ELSE "waiting"

\* get_conection, t38.rs line 53: rx.await returns for a value and for a dropped sender
AwaitReply(sent) == "idle"

GetConnectionMsg(c, e) == [type |-> "GetConnection", caller |-> c, error |-> e, node |-> NoNode]
RecoverFailedNodeMsg(n) == [type |-> "RecoverFailedNode", caller |-> 0, error |-> FALSE, node |-> n]

(***************************************************************************)
(* exec_cmd and query_cmd, db/t38/cmd.rs lines 16-109.  exec_pipeline and  *)
(* query_pipeline (lines 111-224) repeat them for a pipeline.              *)
(***************************************************************************)
\* the caller slot the command uses on the supervisor's channel
CmdCaller == 1

NoCmd ==
  [fn |-> "none", pc |-> "idle", i |-> 0, connection |-> NoNode, e |-> "none",
   result |-> "running"]

\* lines 23 and 65: what the instance behind the connection makes of the command
CmdOutcomes(n) ==
  IF status[n] = "down" THEN {"io"}
  ELSE IF status[n] = "loading" THEN {"busy loading"}
  ELSE {"ok", "not found", "other"}

Return(result) == [next |-> "return", result |-> result]
Refresh == [next |-> "refresh", result |-> "running"]

\* a loop body without the check for busy loading
exec_cmd_on_error_NoLoadingCheck(e, i) ==
  IF i > COUNT_ATTEMPTS_RUN_CMD THEN Return("NotConnected")
  ELSE Refresh

\* lines 24-43: the body of `while let Err(e)` up to get_conection
exec_cmd_on_error(e, i) ==
  IF e = "busy loading" THEN Return("NotConnected")
  ELSE IF i > COUNT_ATTEMPTS_RUN_CMD THEN Return("NotConnected")
  ELSE Refresh

\* lines 67-93: the Err arm up to get_conection
query_cmd_on_error(e, i) ==
  IF e = "not found" THEN Return(e)
  ELSE IF e = "busy loading" THEN Return("NotConnected")
  ELSE IF i > COUNT_ATTEMPTS_RUN_CMD THEN Return("NotConnected")
  ELSE Refresh

\* lines 20 and 61: get_conection(None).await.unwrap()
connected(c, got) ==
  IF got \in Instances
  THEN [c EXCEPT !.pc = "run", !.connection = got]
  ELSE [c EXCEPT !.pc = "done", !.result = "panic"]

\* lines 43-51: exec_cmd gives up when get_conection fails
exec_cmd_reconnected(c, got) ==
  IF got \in Instances
  THEN [c EXCEPT !.pc = "run", !.connection = got, !.i = c.i + 1]
  ELSE [c EXCEPT !.pc = "done", !.result = "NotConnected"]

\* lines 93-102: query_cmd goes on with the connection it has
query_cmd_reconnected(c, got) ==
  IF got \in Instances
  THEN [c EXCEPT !.pc = "run", !.connection = got, !.i = c.i + 1]
  ELSE [c EXCEPT !.pc = "run"]

\* the command takes the reply of get_conection out of its one-shot channel
Resume(c, caller, got) ==
  IF caller # CmdCaller THEN c
  ELSE IF c.pc = "connect" THEN connected(c, got)
  ELSE IF c.pc = "reconnect"
       THEN IF c.fn = "exec_cmd" THEN exec_cmd_reconnected(c, got)
            ELSE query_cmd_reconnected(c, got)
       ELSE c

HandleGetConnection ==
  /\ phase = "serving"
  /\ rx # <<>>
  /\ Head(rx).type = "GetConnection"
  /\ LET m == Head(rx)
         o == IF m.error THEN RefreshConnection ELSE StoredConnection
     IN /\ t38_nodes' = o.nodes
        /\ t38_master_connection' = o.conn
        /\ follows' = o.follows
        /\ t38_config_file' = o.file
        /\ tasks' = tasks \cup o.spawned
        /\ reply' = [reply EXCEPT ![m.caller] = AwaitReply(o.sent)]
        /\ lastPromoted' = IF o.spawned # {} THEN o.conn ELSE lastPromoted
        /\ lastAnswer' = [error |-> m.error, sent |-> o.sent, got |-> ReceiveReply(o.sent),
                           promoted |-> o.spawned # {}]
        /\ reinserted' = reinserted \ {t.failed : t \in o.spawned}
        /\ cmd' = Resume(cmd, m.caller, ReceiveReply(o.sent))
  /\ rx' = Tail(rx)
  /\ UNCHANGED <<yvars, lvars, bvars, svars>>
  /\ UNCHANGED <<phase, status, budget, nodeOrder>>

\* lines 307-311
HandleRecoverFailedNode ==
  /\ phase = "serving"
  /\ rx # <<>>
  /\ Head(rx).type = "RecoverFailedNode"
  /\ t38_nodes' = Insert(t38_nodes, Head(rx).node, T38Node("slave", "active"))
  /\ reinserted' = reinserted \cup {Head(rx).node}
  /\ rx' = Tail(rx)
  /\ UNCHANGED <<yvars, cmd, lvars, bvars, svars>>
  /\ UNCHANGED <<phase, status, follows, budget, t38_config_file, nodeOrder,
                 t38_master_connection, reply, tasks, lastPromoted, lastAnswer>>

(***************************************************************************)
(* recover_failed_node, lines 346-399.                                     *)
(***************************************************************************)
\* lines 354-359: wait until the failed instance accepts a connection
RecoverProbe(t) ==
  /\ t \in tasks /\ t.pc = "probe"
  /\ CanConnect(t.failed)
  /\ tasks' = (tasks \ {t}) \cup {[t EXCEPT !.pc = "connect"]}
  /\ UNCHANGED <<yvars, cmd, lvars, bvars, svars>>
  /\ UNCHANGED <<phase, status, follows, budget, t38_config_file, t38_nodes, nodeOrder,
                 t38_master_connection, rx, reply, lastPromoted, lastAnswer, reinserted>>

\* line 362: without a connection the task ends
RecoverConnect(t) ==
  /\ t \in tasks /\ t.pc = "connect"
  /\ tasks' = IF CanConnect(t.failed)
              THEN (tasks \ {t}) \cup {[t EXCEPT !.pc = "follow"]}
              ELSE tasks \ {t}
  /\ UNCHANGED <<yvars, cmd, lvars, bvars, svars>>
  /\ UNCHANGED <<phase, status, follows, budget, t38_config_file, t38_nodes, nodeOrder,
                 t38_master_connection, rx, reply, lastPromoted, lastAnswer, reinserted>>

\* a recovery task that never reports the node to the supervisor
RecoverFollow_Silent(t) ==
  /\ t \in tasks /\ t.pc = "follow"
  /\ IF CmdOk(t.failed)
     THEN /\ follows' = follow(follows, t.failed, t.master)
          /\ tasks' = tasks \ {t}
     ELSE IF t.i > COUNT_ATTEMPTS_RECOVER
          THEN /\ tasks' = tasks \ {t}
               /\ UNCHANGED follows
          ELSE /\ tasks' = (tasks \ {t}) \cup {[t EXCEPT !.i = t.i + 1]}
               /\ UNCHANGED follows
  /\ UNCHANGED <<yvars, cmd, lvars, bvars, svars>>
  /\ UNCHANGED <<phase, status, budget, t38_config_file, t38_nodes, nodeOrder,
                 t38_master_connection, rx, reply, lastPromoted, lastAnswer, reinserted>>

\* lines 364-395: one FOLLOW attempt; the node is reported recovered when the
\* attempt succeeds and when the attempts are used up
RecoverFollow(t) ==
  /\ t \in tasks /\ t.pc = "follow"
  /\ IF CmdOk(t.failed)
     THEN /\ follows' = follow(follows, t.failed, t.master)
          /\ tasks' = tasks \ {t}
          /\ rx' = Append(rx, RecoverFailedNodeMsg(t.failed))
     ELSE IF t.i > COUNT_ATTEMPTS_RECOVER
          THEN /\ tasks' = tasks \ {t}
               /\ rx' = Append(rx, RecoverFailedNodeMsg(t.failed))
               /\ UNCHANGED follows
          ELSE /\ tasks' = (tasks \ {t}) \cup {[t EXCEPT !.i = t.i + 1]}
               /\ UNCHANGED <<follows, rx>>
  /\ UNCHANGED <<yvars, cmd, lvars, bvars, svars>>
  /\ UNCHANGED <<phase, status, budget, t38_config_file, t38_nodes, nodeOrder,
                 t38_master_connection, reply, lastPromoted, lastAnswer, reinserted>>

(***************************************************************************)
(* The environment: callers (exec_cmd, query_cmd) and the instances.       *)
(***************************************************************************)
\* get_conection, t38.rs lines 47-51
Call(c, e) ==
  /\ phase = "serving"
  /\ reply[c] = "idle"
  /\ rx' = Append(rx, GetConnectionMsg(c, e))
  /\ reply' = [reply EXCEPT ![c] = "waiting"]
  /\ UNCHANGED <<yvars, cmd, lvars, bvars, svars>>
  /\ UNCHANGED <<phase, status, follows, budget, t38_config_file, t38_nodes, nodeOrder,
                 t38_master_connection, tasks, lastPromoted, lastAnswer, reinserted>>

Kill(n) ==
  /\ phase = "serving"
  /\ budget > 0
  /\ status[n] # "down"
  /\ status' = [status EXCEPT ![n] = "down"]
  /\ budget' = budget - 1
  /\ UNCHANGED <<yvars, cmd, lvars, bvars, svars>>
  /\ UNCHANGED <<phase, follows, t38_config_file, t38_nodes, nodeOrder,
                 t38_master_connection, rx, reply, tasks, lastPromoted, lastAnswer, reinserted>>

\* a restarted instance loads its AOF before it answers commands
Revive(n) ==
  /\ phase = "serving"
  /\ budget > 0
  /\ status[n] = "down"
  /\ status' = [status EXCEPT ![n] = "loading"]
  /\ budget' = budget - 1
  /\ UNCHANGED <<yvars, cmd, lvars, bvars, svars>>
  /\ UNCHANGED <<phase, follows, t38_config_file, t38_nodes, nodeOrder,
                 t38_master_connection, rx, reply, tasks, lastPromoted, lastAnswer, reinserted>>

Loaded(n) ==
  /\ phase = "serving"
  /\ status[n] = "loading"
  /\ status' = [status EXCEPT ![n] = "up"]
  /\ UNCHANGED <<yvars, cmd, lvars, bvars, svars>>
  /\ UNCHANGED <<phase, follows, budget, t38_config_file, t38_nodes, nodeOrder,
                 t38_master_connection, rx, reply, tasks, lastPromoted, lastAnswer, reinserted>>

(***************************************************************************)
(* The steps of exec_cmd and query_cmd.                                    *)
(***************************************************************************)
\* lines 20 and 61: the command asks for the stored connection
CmdStart(f) ==
  /\ phase = "serving"
  /\ cmd.pc \in {"idle", "done"}
  /\ reply[CmdCaller] = "idle"
  /\ cmd' = [NoCmd EXCEPT !.fn = f, !.pc = "connect"]
  /\ rx' = Append(rx, GetConnectionMsg(CmdCaller, FALSE))
  /\ reply' = [reply EXCEPT ![CmdCaller] = "waiting"]
  /\ UNCHANGED <<yvars, lvars, bvars, svars>>
  /\ UNCHANGED <<phase, status, follows, budget, t38_config_file, t38_nodes, nodeOrder,
                 t38_master_connection, tasks, lastPromoted, lastAnswer, reinserted>>

\* lines 23-43 and 65-93: the command is run on the connection; on an error
\* that is tried again the command sleeps and calls get_conection(Some(e))
CmdRun(out) ==
  /\ cmd.pc = "run"
  /\ out \in CmdOutcomes(cmd.connection)
  /\ IF out = "ok"
     THEN /\ cmd' = [cmd EXCEPT !.pc = "done", !.result = "Ok", !.e = "none"]
          /\ UNCHANGED <<rx, reply>>
     ELSE LET o == IF cmd.fn = "exec_cmd"
                   THEN exec_cmd_on_error(out, cmd.i)
                   ELSE query_cmd_on_error(out, cmd.i)
          IN IF o.next = "return"
             THEN /\ cmd' = [cmd EXCEPT !.pc = "done", !.result = o.result, !.e = out]
                  /\ UNCHANGED <<rx, reply>>
             ELSE /\ cmd' = [cmd EXCEPT !.pc = "reconnect", !.e = out]
                  /\ rx' = Append(rx, GetConnectionMsg(CmdCaller, TRUE))
                  /\ reply' = [reply EXCEPT ![CmdCaller] = "waiting"]
  /\ UNCHANGED <<yvars, lvars, bvars, svars>>
  /\ UNCHANGED <<phase, status, follows, budget, t38_config_file, t38_nodes, nodeOrder,
                 t38_master_connection, tasks, lastPromoted, lastAnswer, reinserted>>

(***************************************************************************)
(* yandex_api_task: the API-key scheduler, tasks/yandex.rs.                *)
(***************************************************************************)
None == [kind |-> "None", i |-> 0]
Some(i) == [kind |-> "Some", i |-> i]
\* the one-shot sender was dropped without a send
Dropped == [kind |-> "dropped", i |-> 0]
NoReply == [kind |-> "unset", i |-> 0]

\* tx is the LBS request that holds the receiver of the one-shot channel; 0 is
\* a request that is not followed further
GetApiKey(tx) == [type |-> "GetApiKey", i |-> 0, tx |-> tx]
GetApiKeyMsg == GetApiKey(0)
InvalidApiKeyMsg(i) == [type |-> "InvalidApiKey", i |-> i, tx |-> 0]
ValidApipKeyMsg(i) == [type |-> "ValidApipKey", i |-> i, tx |-> 0]

\* lines 48-55: the keys are numbered in the order of the configuration
ConfiguredKeys(n) == {i \in 0..MaxKeys : i < n}

\* an index that wraps one call late
NextIndex_WrapsLate(ik, ck) ==
  IF ik > ck
  THEN [index |-> 0, index_key |-> 1]
  ELSE [index |-> ik, index_key |-> ik + 1]

\* lines 123-131: simple balancing based on the order of keys
NextIndex(ik, ck) ==
  IF ik > ck - 1
  THEN [index |-> 0, index_key |-> 1]
  ELSE [index |-> ik, index_key |-> ik + 1]

\* lines 142-151: the first entry the map's iterator yields; the order of a
\* HashMap is unspecified, so any active key may come first
FirstActive(active) ==
  IF active = {} THEN {Dropped} ELSE {Some(k) : k \in active}

\* a lookup that answers with the index whether or not it is active
Lookup_Unchecked(active, index) == {Some(index)}

\* lines 133-152: the replies possible for the index: the key at the index, or
\* else the fallback
Lookup(active, index) ==
  IF index \in active THEN {Some(index)} ELSE FirstActive(active)

\* a handler that only forwards the key to the worker
Deactivate_Forgotten(active, i) == active

\* line 156: active_api_keys.remove
Deactivate(active, i) == active \ {i}

\* line 167: active_api_keys.insert
Activate(active, i) == active \cup {i}

Min(a, b) == IF a < b THEN a ELSE b

\* lines 116, 134 and 143: tx.send puts the reply into the one-shot channel of
\* the request that asked
Answer(requests, tx, r) ==
  IF tx \in DOMAIN requests THEN [requests EXCEPT ![tx].rx = r] ELSE requests

\* lines 114-153
HandleGetApiKey ==
  /\ yrx # <<>>
  /\ Head(yrx).type = "GetApiKey"
  /\ LET n == NextIndex(index_key, count_keys)
     IN /\ index_key' = IF count_keys = 0 THEN index_key ELSE n.index_key
        /\ \E r \in IF count_keys = 0 THEN {None} ELSE Lookup(active_api_keys, n.index) :
             /\ lastGet' = r
             /\ handed' = IF r.kind = "Some" THEN handed \cup {r.i} ELSE handed
             /\ lbs' = Answer(lbs, Head(yrx).tx, r)
        /\ streak' = Min(streak + 1, 2)
  /\ yrx' = Tail(yrx)
  /\ UNCHANGED <<api_keys, probing, active_api_keys, count_keys, invalid_api_keys,
                 temp_keys, rx_inv_key, invalidLeft, blocked, restored>>
  /\ UNCHANGED <<t38vars, cmd, permits, calls, bvars, svars>>

\* lines 154-163
HandleInvalidApiKey ==
  /\ yrx # <<>>
  /\ Head(yrx).type = "InvalidApiKey"
  /\ LET i == Head(yrx).i
     IN /\ active_api_keys' = Deactivate(active_api_keys, i)
        /\ count_keys' = IF i \in active_api_keys
                         THEN Cardinality(active_api_keys')
                         ELSE count_keys
        /\ rx_inv_key' = Append(rx_inv_key, i)
        /\ blocked' = blocked \cup {i}
        /\ restored' = restored \ {i}
  /\ lastGet' = NoReply
  /\ streak' = 0
  /\ yrx' = Tail(yrx)
  /\ UNCHANGED <<api_keys, probing, index_key, invalid_api_keys, temp_keys, handed, invalidLeft>>
  /\ UNCHANGED <<t38vars, cmd, lvars, bvars, svars>>

\* lines 164-169
HandleValidApipKey ==
  /\ yrx # <<>>
  /\ Head(yrx).type = "ValidApipKey"
  /\ LET i == Head(yrx).i
     IN /\ active_api_keys' = Activate(active_api_keys, i)
        /\ count_keys' = Cardinality(active_api_keys')
        /\ blocked' = blocked \ {i}
        /\ restored' = restored \cup {i}
  /\ lastGet' = NoReply
  /\ streak' = 0
  /\ yrx' = Tail(yrx)
  /\ UNCHANGED <<api_keys, probing, index_key, invalid_api_keys, temp_keys, rx_inv_key,
                 handed, invalidLeft>>
  /\ UNCHANGED <<t38vars, cmd, lvars, bvars, svars>>

\* lines 71-82: the worker, not in a sweep, takes an invalid key
RecvInvalidKey ==
  /\ temp_keys = {} /\ probing = {}
  /\ rx_inv_key # <<>>
  /\ invalid_api_keys' = invalid_api_keys \cup {Head(rx_inv_key)}
  /\ rx_inv_key' = Tail(rx_inv_key)
  /\ UNCHANGED <<api_keys, probing, active_api_keys, count_keys, index_key, temp_keys,
                 yrx, handed, invalidLeft, lastGet, streak, blocked, restored>>
  /\ UNCHANGED <<t38vars, cmd, lvars, bvars, svars>>

\* lines 83-86: the hourly tick starts a sweep over a copy of the invalid keys
Tick ==
  /\ temp_keys = {} /\ probing = {}
  /\ invalid_api_keys # {}
  /\ temp_keys' = invalid_api_keys
  /\ UNCHANGED <<api_keys, probing, active_api_keys, count_keys, index_key,
                 invalid_api_keys, yrx, rx_inv_key, handed, invalidLeft, lastGet, streak,
                 blocked, restored>>
  /\ UNCHANGED <<t38vars, cmd, lvars, bvars, svars>>

\* lines 88-90: the sweep sends the probe request of its next key, with no
\* permit of the semaphore
ProbeSend(i) ==
  /\ i \in temp_keys
  /\ probing = {}
  /\ temp_keys' = temp_keys \ {i}
  /\ probing' = {i}
  /\ UNCHANGED <<api_keys, active_api_keys, count_keys, index_key, invalid_api_keys,
                 yrx, rx_inv_key, handed, invalidLeft, lastGet, streak, blocked, restored>>
  /\ UNCHANGED <<t38vars, cmd, lvars, bvars, svars>>

\* lines 90-101: the answer to the probe; ok is "the LBS answered 200"
Probe(i, ok) ==
  /\ probing = {i}
  /\ probing' = {}
  /\ IF ok
     THEN /\ invalid_api_keys' = invalid_api_keys \ {i}
          /\ yrx' = Append(yrx, ValidApipKeyMsg(i))
     ELSE UNCHANGED <<invalid_api_keys, yrx>>
  /\ UNCHANGED <<api_keys, active_api_keys, count_keys, index_key, temp_keys, rx_inv_key,
                 handed, invalidLeft, lastGet, streak, blocked, restored>>
  /\ UNCHANGED <<t38vars, cmd, lvars, bvars, svars>>

\* lbs/yandex.rs lines 256-266: an LBS request asks for a key and waits
RequestKey ==
  /\ Cardinality({k \in DOMAIN yrx : yrx[k].type = "GetApiKey"}) < NumClients
  /\ yrx' = Append(yrx, GetApiKeyMsg)
  /\ UNCHANGED <<api_keys, probing, active_api_keys, count_keys, index_key, invalid_api_keys,
                 temp_keys, rx_inv_key, handed, invalidLeft, lastGet, streak, blocked,
                 restored>>
  /\ UNCHANGED <<t38vars, cmd, lvars, bvars, svars>>

\* lbs/yandex.rs lines 302-312: the LBS answered 403 to a request that holds key i
ReportInvalidKey(i) ==
  /\ i \in handed
  /\ invalidLeft > 0
  /\ yrx' = Append(yrx, InvalidApiKeyMsg(i))
  /\ invalidLeft' = invalidLeft - 1
  /\ UNCHANGED <<api_keys, probing, active_api_keys, count_keys, index_key, invalid_api_keys,
                 temp_keys, rx_inv_key, handed, lastGet, streak, blocked, restored>>
  /\ UNCHANGED <<t38vars, cmd, lvars, bvars, svars>>

(***************************************************************************)
(* yandex_lbs_request_by_individual_wifi, lbs/yandex.rs lines 217-370, for *)
(* one access point that is not in the cache.  The request for one cell,   *)
(* yandex_lbs_request_by_individual_cell (lbs/yandex_cell.rs 134-300), is  *)
(* the same code line by line, so one model stands for both.               *)
(***************************************************************************)
Requests == 1..NumRequests

\* what the LBS, or the network, makes of one HTTP request
Transport == [kind |-> "transport", status |-> 0, body |-> "none"]
Status(st) == [kind |-> "response", status |-> st, body |-> "none"]
Body(b) == [kind |-> "response", status |-> 200, body |-> b]
NoResponse == [kind |-> "unset", status |-> 0, body |-> "none"]

\* a body that is not JSON, the empty object, a location, and an object that is
\* not a YandexLbsResponse
Bodies == {"not json", "empty", "location", "other"}

Responses ==
  {Transport} \cup {Status(st) : st \in {400, 403, 429, 500, 504}} \cup {Body(b) : b \in Bodies}

\* Result<HashMap<String, Option<YandexLbsResponse>>, ApiError>
Running == [kind |-> "running", status |-> 0]
Ok == [kind |-> "Ok", status |-> 0]
LbsError(st) == [kind |-> "LbsError", status |-> st]
LbsRequestError == [kind |-> "LbsRequestError", status |-> 0]

\* what one pass of the while loop does with the response: next is "retry"
\* (sleep and continue), "return" or "break"; invalid is "InvalidApiKey is sent";
\* entry is the entry of the item in lbs_responses
Pass(next, result, invalid, entry) ==
  [next |-> next, result |-> result, invalid |-> invalid, entry |-> entry]

\* a pass that tries the request again after a transport error, the item set to None
on_response_Resends(attempt, r) ==
  IF r.kind = "transport"
  THEN Pass("retry", Running, FALSE, "None")
  ELSE IF r.status # 200
       THEN IF r.status \in {429, 500, 504}
            THEN IF attempt = count_attempts
                 THEN Pass("return", LbsError(r.status), FALSE, "absent")
                 ELSE Pass("retry", Running, FALSE, "absent")
            ELSE Pass("return", LbsError(r.status), r.status = 403, "absent")
       ELSE Pass("break", Ok, FALSE,
                 IF r.body = "location" THEN "Some"
                 ELSE IF r.body = "other" THEN "absent" ELSE "None")

\* a pass that treats 403 like the statuses that are tried again
on_response_Retries403(attempt, r) ==
  IF r.kind = "transport"
  THEN Pass("return", LbsRequestError, FALSE, "absent")
  ELSE IF r.status # 200
       THEN IF r.status \in {403, 429, 500, 504}
            THEN IF attempt = count_attempts
                 THEN Pass("return", LbsError(r.status), r.status = 403, "absent")
                 ELSE Pass("retry", Running, r.status = 403, "absent")
            ELSE Pass("return", LbsError(r.status), FALSE, "absent")
       ELSE Pass("break", Ok, FALSE,
                 IF r.body = "location" THEN "Some"
                 ELSE IF r.body = "other" THEN "absent" ELSE "None")

\* lines 278-361
on_response(attempt, r) ==
  IF r.kind = "transport"
  THEN Pass("return", LbsRequestError, FALSE, "absent")
  ELSE IF r.status # 200
       THEN IF r.status \in {429, 500, 504}
            THEN IF attempt = count_attempts
                 THEN Pass("return", LbsError(r.status), FALSE, "absent")
                 ELSE Pass("retry", Running, FALSE, "absent")
            ELSE Pass("return", LbsError(r.status), r.status = 403, "absent")
       ELSE Pass("break", Ok, FALSE,
                 IF r.body = "location" THEN "Some"
                 ELSE IF r.body = "other" THEN "absent" ELSE "None")

Idle ==
  [pc |-> "idle", rx |-> NoReply, i |-> 0, attempt |-> 0, last |-> NoResponse,
   result |-> Running, entry |-> "absent"]

\* the variables of the scheduler an LBS request does not touch
ykeys == <<api_keys, active_api_keys, count_keys, index_key, invalid_api_keys,
           temp_keys, probing, rx_inv_key, handed, invalidLeft, lastGet, streak,
           blocked, restored>>

\* lines 256-264: the request asks the scheduler for a key
LbsStart(c) ==
  /\ lbs[c].pc = "idle"
  /\ calls > 0
  /\ calls' = calls - 1
  /\ yrx' = Append(yrx, GetApiKey(c))
  /\ lbs' = [lbs EXCEPT ![c].pc = "key"]
  /\ UNCHANGED <<ykeys, permits>>
  /\ UNCHANGED <<t38vars, cmd, bvars, svars>>

\* lines 266-267 and 364-366: without a key the request fails with LbsError(403)
LbsKey(c) ==
  /\ lbs[c].pc = "key"
  /\ lbs[c].rx # NoReply
  /\ lbs' = IF lbs[c].rx.kind = "Some"
            THEN [lbs EXCEPT ![c].pc = "acquire", ![c].i = lbs[c].rx.i]
            ELSE [lbs EXCEPT ![c].pc = "done", ![c].result = LbsError(403)]
  /\ UNCHANGED <<yvars, permits, calls>>
  /\ UNCHANGED <<t38vars, cmd, bvars, svars>>

\* lines 269-274: the permit is held until the block of the item is left
LbsAcquire(c) ==
  /\ lbs[c].pc = "acquire"
  /\ permits > 0
  /\ permits' = permits - 1
  /\ lbs' = [lbs EXCEPT ![c].pc = "loop", ![c].attempt = 0]
  /\ UNCHANGED <<yvars, calls>>
  /\ UNCHANGED <<t38vars, cmd, bvars, svars>>

\* lines 275-283: the head of the while loop and the HTTP request
LbsSend(c) ==
  /\ lbs[c].pc = "loop"
  /\ IF lbs[c].attempt <= count_attempts
     THEN /\ lbs' = [lbs EXCEPT ![c].pc = "sent", ![c].attempt = lbs[c].attempt + 1]
          /\ UNCHANGED permits
     ELSE /\ lbs' = [lbs EXCEPT ![c].pc = "done", ![c].result = Ok]
          /\ permits' = permits + 1
  /\ UNCHANGED <<yvars, calls>>
  /\ UNCHANGED <<t38vars, cmd, bvars, svars>>

\* lines 284-361: the answer to the HTTP request
LbsResponse(c, r) ==
  /\ lbs[c].pc = "sent"
  /\ LET o == on_response(lbs[c].attempt, r)
     IN /\ lbs' = [lbs EXCEPT ![c].pc = IF o.next = "retry" THEN "loop" ELSE "done",
                              ![c].last = r,
                              ![c].result = o.result,
                              ![c].entry = o.entry]
        /\ yrx' = IF o.invalid THEN Append(yrx, InvalidApiKeyMsg(lbs[c].i)) ELSE yrx
        /\ permits' = IF o.next = "retry" THEN permits ELSE permits + 1
  /\ UNCHANGED <<ykeys, calls>>
  /\ UNCHANGED <<t38vars, cmd, bvars, svars>>

\* the caller takes the result
LbsReturn(c) ==
  /\ lbs[c].pc = "done"
  /\ lbs' = [lbs EXCEPT ![c] = Idle]
  /\ UNCHANGED <<yvars, permits, calls>>
  /\ UNCHANGED <<t38vars, cmd, bvars, svars>>

\* the number of HTTP requests to the LBS that wait for their answer
InFlight == Cardinality({c \in Requests : lbs[c].pc = "sent"}) + Cardinality(probing)

\* no LBS request is made
NoRequests ==
  /\ lbs = [c \in Requests |-> Idle]
  /\ permits = rate_limit
  /\ calls = 0

\* lines 45-57 and 109-110: the scheduler before its first message
SchedulerStart ==
  /\ active_api_keys = ConfiguredKeys(api_keys)
  /\ count_keys = api_keys
  /\ index_key = 0
  /\ invalid_api_keys = {}
  /\ temp_keys = {}
  /\ probing = {}
  /\ yrx = <<>>
  /\ rx_inv_key = <<>>
  /\ handed = {}
  /\ lastGet = NoReply
  /\ streak = 0
  /\ blocked = {}
  /\ restored = {}

\* the external LBS is not configured
NoScheduler ==
  /\ api_keys = 0
  /\ invalidLeft = 0
  /\ SchedulerStart

\* no command is run
NoCommand == cmd = NoCmd

Accuracies == 1..MaxAccuracy

(***************************************************************************)
(* TransmitterLocation (db/transmitter.rs).  An f64 is a rational number   *)
(* <<numerator, denominator>> in lowest terms with a positive denominator: *)
(* the arithmetic is exact.                                                *)
(***************************************************************************)
Lats == -MaxLat..MaxLat
Lons == 0..MaxLon
ObsWeights == 1..MaxObsWeight
Strengths == -MaxStrength..-1

Abs(x) == IF x < 0 THEN -x ELSE x

RECURSIVE Gcd(_, _)
Gcd(a, b) == IF b = 0 THEN a ELSE Gcd(b, a % b)

Rational(n, d) == LET g == Gcd(Abs(n), d) IN <<n \div g, d \div g>>
f64(x) == Rational(x, 1)
Add(a, b) == Rational(a[1] * b[2] + b[1] * a[2], a[2] * b[2])
Mul(a, b) == Rational(a[1] * b[1], a[2] * b[2])
\* a / b for b > 0
Div(a, b) == Rational(a[1] * b[2], a[2] * b[1])
Less(a, b) == a[1] * b[2] < b[1] * a[2]

\* the arguments of new and of update
Observation(lat, lon, accuracy, weight, strength) ==
  [lat |-> lat, lon |-> lon, accuracy |-> accuracy, weight |-> weight, strength |-> strength]
Observations ==
  {Observation(lat, lon, accuracy, weight, strength) :
     lat \in Lats, lon \in Lons, accuracy \in Accuracies, weight \in ObsWeights,
     strength \in Strengths}

NoTransmitterLocation ==
  [exists |-> FALSE, min_lat |-> f64(0), min_lon |-> f64(0), max_lat |-> f64(0),
   max_lon |-> f64(0), lat |-> f64(0), lon |-> f64(0), accuracy |-> f64(0),
   total_weight |-> f64(0), min_strength |-> f64(0), max_strength |-> f64(0)]

\* TransmitterLocation::new
TransmitterLocation_new(o) ==
  [exists |-> TRUE, min_lat |-> f64(o.lat), min_lon |-> f64(o.lon), max_lat |-> f64(o.lat),
   max_lon |-> f64(o.lon), lat |-> f64(o.lat), lon |-> f64(o.lon),
   accuracy |-> f64(o.accuracy), total_weight |-> f64(o.weight),
   min_strength |-> f64(o.strength), max_strength |-> f64(o.strength)]

\* an average that forgets the weights
weighted_average_Unweighted(old, total_weight, new, weight) ==
  Div(Add(old, new), f64(2))

\* ((self.x * self.total_weight) + (x * weight)) / (self.total_weight + weight)
weighted_average(old, total_weight, new, weight) ==
  Div(Add(Mul(old, total_weight), Mul(new, weight)), Add(total_weight, weight))

\* if x < self.min { self.min = x }
lower(min, x) == IF Less(x, min) THEN x ELSE min

\* an upper bound that never moves
upper_Kept(min, max, x) == max

\* else if x > self.max { self.max = x }
upper(min, max, x) == IF Less(x, min) THEN max ELSE IF Less(max, x) THEN x ELSE max

\* TransmitterLocation::update
TransmitterLocation_update(self, o) ==
  [self EXCEPT
     !.min_lat = lower(self.min_lat, f64(o.lat)),
     !.max_lat = upper(self.min_lat, self.max_lat, f64(o.lat)),
     !.min_lon = lower(self.min_lon, f64(o.lon)),
     !.max_lon = upper(self.min_lon, self.max_lon, f64(o.lon)),
     !.lat = weighted_average(self.lat, self.total_weight, f64(o.lat), f64(o.weight)),
     !.lon = weighted_average(self.lon, self.total_weight, f64(o.lon), f64(o.weight)),
     !.accuracy = weighted_average(self.accuracy, self.total_weight, f64(o.accuracy),
                                   f64(o.weight)),
     !.total_weight = Add(self.total_weight, f64(o.weight)),
     !.min_strength = lower(self.min_strength, f64(o.strength)),
     !.max_strength = upper(self.min_strength, self.max_strength, f64(o.strength))]

(***************************************************************************)
(* The batch ingestor: services/submission/process.rs, run, lines 49-294,  *)
(* with the statements of db/mod.rs it issues.                             *)
(***************************************************************************)
ReportIds == 1..MaxReports

\* a row of report: processed_at IS NOT NULL, processing_error IS NOT NULL
Row(processed, error) == [processed_at |-> processed, processing_error |-> error]

\* what the relational store makes of one statement: success, a serialization
\* failure, a deadlock, another error of the server, an error of the connection
SqlOutcomes == {"ok", "40001", "40P01", "db", "io"}

\* db/mod.rs lines 66-75 and 134-147: id is read into and bound from an i64;
\* the text of an error goes into processing_error
Accepts(rust_type, column) ==
  \/ rust_type = "i64" /\ column = "id"
  \/ rust_type = "String" /\ column = "processing_error"

\* transaction.execute: the parameters are checked against the types of the
\* placeholders, in order, before the statement is sent; out is what the
\* store makes of a statement that is sent
execute(placeholders, params, out) ==
  IF \E k \in DOMAIN params : ~Accepts(params[k], placeholders[k])
  THEN "WrongType"
  ELSE out

\* db/mod.rs lines 134-152: WHERE id = $1 with &[&report_id]
update_report(out) == execute(<<"id">>, <<"i64">>, out)

\* db/mod.rs lines 154-176: SET processing_error = $1 WHERE id = $2 with
\* &[&report_id, &format!("{err}")]
update_report_error(out) ==
  execute(<<"processing_error", "id">>, <<"i64", "String">>, out)

\* tl is the entry of modified for the access point of the reports
NoBatch ==
  [pc |-> "idle", selected |-> {}, reports |-> <<>>, failed |-> {}, modified |-> FALSE,
   tl |-> NoTransmitterLocation, result |-> "none", err |-> "none"]

\* every report observes the one access point, with weight 1
BatchObservation == Observation(0, 0, 1, 1, -1)

\* process.rs lines 200-226: the entry of modified after one more observation;
\* an error of the lookup skips the transmitter
Observed(entry, lookup_ok) ==
  IF entry.exists THEN TransmitterLocation_update(entry, BatchObservation)
  ELSE IF ~lookup_ok THEN entry
  ELSE IF wifi.exists THEN TransmitterLocation_update(wifi, BatchObservation)
  ELSE TransmitterLocation_new(BatchObservation)

\* the ids of the unprocessed rows, ORDER BY id
RECURSIVE Unprocessed(_, _)
Unprocessed(rows, k) ==
  IF k > MaxReports THEN <<>>
  ELSE IF rows[k].processed_at THEN Unprocessed(rows, k + 1)
       ELSE <<k>> \o Unprocessed(rows, k + 1)

\* the run ends: Ok(()) after a break, Err(e) after a return or a `?`; the
\* transaction, if still open, is rolled back when it is dropped
Finish(b, result, err) == [b EXCEPT !.pc = "done", !.result = result, !.err = err]

\* tasks/report.rs lines 42-57 and process.rs 56-64: the tick calls run, which
\* opens a serializable transaction
BatchStart ==
  /\ batch.pc \in {"idle", "done"}
  /\ ~Less(f64(MaxCachedWeight), wifi.total_weight)
  /\ batch' = [NoBatch EXCEPT !.pc = "select"]
  /\ txn' = report
  /\ UNCHANGED report
  /\ UNCHANGED <<t38vars, yvars, cmd, lvars, svars>>

\* process.rs lines 66-94: get_reports
BatchSelect(out) ==
  /\ batch.pc = "select"
  /\ IF out = "ok"
     THEN LET rs == Unprocessed(txn, 1)
          IN batch' = [batch EXCEPT !.pc = IF rs = <<>> THEN "commit" ELSE "report",
                                    !.reports = rs,
                                    !.selected = {rs[k] : k \in DOMAIN rs}]
     ELSE batch' = IF out \in {"40001", "40P01", "db"}
                   THEN Finish(batch, "Ok", out)
                   ELSE Finish(batch, "Err", out)
  /\ UNCHANGED <<report, txn>>
  /\ UNCHANGED <<t38vars, yvars, cmd, lvars, svars>>

\* process.rs lines 96-232: one pass of `for report in reports`; extracted is
\* "extract returned Ok"
BatchReport(out, extracted, out_error, lookup_ok) ==
  /\ batch.pc = "report"
  /\ batch.reports # <<>>
  /\ LET id   == Head(batch.reports)
         rest == [batch EXCEPT !.reports = Tail(batch.reports),
                               !.pc = IF Tail(batch.reports) = <<>> THEN "insert" ELSE "report"]
         u    == update_report(out)
         ue   == update_report_error(out_error)
     IN IF u # "ok"
        THEN /\ batch' = Finish(batch, "Err", u)
             /\ UNCHANGED txn
        ELSE IF extracted
             THEN /\ batch' = [rest EXCEPT !.modified = TRUE,
                                            !.tl = Observed(batch.tl, lookup_ok)]
                  /\ txn' = [txn EXCEPT ![id].processed_at = TRUE]
             ELSE IF ue # "ok"
                  THEN /\ batch' = Finish([batch EXCEPT !.failed = batch.failed \cup {id}],
                                          "Err", ue)
                       /\ txn' = [txn EXCEPT ![id].processed_at = TRUE]
                  ELSE /\ batch' = [rest EXCEPT !.failed = batch.failed \cup {id}]
                       /\ txn' = [txn EXCEPT ![id].processed_at = TRUE,
                                              ![id].processing_error = TRUE]
  /\ UNCHANGED report
  /\ UNCHANGED <<t38vars, yvars, cmd, lvars, svars>>

\* process.rs lines 236-283: set_wifi_one for the access point, which writes
\* to the collection "wifi" outside the transaction, then the inserts of the
\* other modified transmitters and of the cells of the grid
BatchInsert(out, set_ok) ==
  /\ batch.pc = "insert"
  /\ IF batch.tl.exists /\ ~set_ok
     THEN /\ batch' = Finish(batch, "Err", "io")
          /\ UNCHANGED wifi
     ELSE /\ wifi' = IF batch.tl.exists THEN batch.tl ELSE wifi
          /\ batch' = IF batch.modified /\ out # "ok"
                      THEN Finish(batch, "Err", out)
                      ELSE [batch EXCEPT !.pc = "commit"]
  /\ UNCHANGED <<report, txn>>
  /\ UNCHANGED <<t38vars, yvars, cmd, lvars>>
  /\ UNCHANGED <<kvars, wvars, evars, loc, tvars, mvars, dvars, online>>

\* process.rs lines 88-94 and 285-291: commit; after an empty batch the loop is
\* left, after any other the next transaction is opened
BatchCommit(out) ==
  /\ batch.pc = "commit"
  /\ IF out = "ok"
     THEN /\ report' = txn
          /\ txn' = txn
          /\ batch' = IF batch.selected = {}
                      THEN Finish(batch, "Ok", "none")
                      ELSE [NoBatch EXCEPT !.pc = "select"]
     ELSE /\ batch' = Finish(batch, "Err", out)
          /\ UNCHANGED <<report, txn>>
  /\ UNCHANGED <<t38vars, yvars, cmd, lvars, svars>>

\* the ingestor does not run
NoIngestor ==
  /\ report = [id \in ReportIds |-> Row(TRUE, FALSE)]
  /\ txn = report
  /\ batch = NoBatch

(***************************************************************************)
(* The Wi-Fi track of a device (services/submission/report.rs,             *)
(* db/t38/track.rs).  A record is its timestamp and the number of the      *)
(* report it came from.                                                    *)
(***************************************************************************)
TrackRecord(ts, n) == [ts |-> ts, n |-> n]
Timestamps == 1..MaxTs

\* Vec::sort_by_key(|wtr| wtr.ts): stable, ascending
RECURSIVE sort_by_key(_)
sort_by_key(records) ==
  IF records = <<>> THEN <<>>
  ELSE LET sorted == sort_by_key(SubSeq(records, 1, Len(records) - 1))
           r == records[Len(records)]
           k == Cardinality({i \in DOMAIN sorted : sorted[i].ts <= r.ts})
       IN  SubSeq(sorted, 1, k) \o <<r>> \o SubSeq(sorted, k + 1, Len(sorted))

\* a reader that leaves the records in the order they were stored in
get_wifi_track_one_Unsorted(value) == value

\* get_wifi_track_one on a value that was found
get_wifi_track_one(value) == sort_by_key(value)

\* Vec::swap_remove(index): the last element takes the place of the removed one
swap_remove(v, index) ==
  [k \in 1..(Len(v) - 1) |-> IF k = index + 1 THEN v[Len(v)] ELSE v[k]]

NoTrackCall == [pc |-> "idle", wifi_track_opt |-> <<>>, wtr |-> TrackRecord(0, 0)]

\* process_wifi_track up to the answer of JGET: an error ends the call
TrackGet(ts, ok) ==
  /\ wtp.pc = "idle"
  /\ tracked < MaxTracked
  /\ tracked' = tracked + 1
  /\ wtp' = IF ok
              THEN [pc |-> "got",
                    wifi_track_opt |-> IF track = <<>> THEN <<>>
                                       ELSE get_wifi_track_one(track),
                    wtr |-> TrackRecord(ts, tracked')]
              ELSE NoTrackCall
  /\ UNCHANGED track
  /\ UNCHANGED <<cvars, pvars, wvars, evars, loc>>

\* the track process_wifi_track writes back
NewTrack(wt, wtr) ==
  IF wt # <<>>
  THEN (IF Len(wt) > TRACK_SIZE_THRESHOLD THEN swap_remove(wt, 0) ELSE wt) \o <<wtr>>
  ELSE <<wtr>>

\* process_wifi_track from the answer of JGET on: JSET, whose error is logged
TrackSet(ok) ==
  /\ wtp.pc = "got"
  /\ track' = IF ok THEN NewTrack(wtp.wifi_track_opt, wtp.wtr) ELSE track
  /\ wtp' = NoTrackCall
  /\ UNCHANGED tracked
  /\ UNCHANGED <<cvars, pvars, wvars, evars, loc>>

\* no report with Wi-Fi is processed
NoTracks ==
  /\ track = <<>>
  /\ wtp = NoTrackCall
  /\ tracked = MaxTracked

(***************************************************************************)
(* The cache of LBS answers for access points (lbs/yandex.rs,              *)
(* services/submission/report.rs).  Positions are points of a line; the    *)
(* accuracy of a record is the one the LBS returned or the default.        *)
(***************************************************************************)
Macs == 1..NumMacs
Points == 1..MaxPoint
Distance(p, q) == IF p > q THEN p - q ELSE q - p

NoLbsRecord == [found |-> FALSE, point |-> 0, accuracy |-> "none"]
YandexLbsResponse(point, accuracy) == [found |-> TRUE, point |-> point, accuracy |-> accuracy]

\* what the attempts of a request to the LBS end with
LbsResults == {[kind |-> "error", point |-> 0], [kind |-> "none", point |-> 0]}
                \cup {[kind |-> "location", point |-> p] : p \in Points}
\* what AlterGeo answers: an error, no iamhere, or a position
AlterGeoResults == {[kind |-> "error", point |-> 0], [kind |-> "none", point |-> 0]}
                     \cup {[kind |-> "location", point |-> p] : p \in Points}

NoAnswerYet == [by |-> "none", mac |-> 0, point |-> 0]
Answers(by, mac, r) ==
  IF r.kind = "location" THEN [by |-> by, mac |-> mac, point |-> r.point] ELSE NoAnswerYet

\* one iteration of yandex_lbs_request_by_individual_wifi: the cached record if
\* there is one, else a request, whose location is saved
yandex_lbs_request_by_individual_wifi(cached, get_ok, r, set_ok) ==
  IF ~get_ok THEN [result |-> "Ok", response |-> NoLbsRecord, save |-> NoLbsRecord, asked |-> FALSE]
  ELSE IF cached.found
  THEN [result |-> "Ok", response |-> cached, save |-> NoLbsRecord, asked |-> FALSE]
  ELSE IF r.kind = "error"
  THEN [result |-> "Err", response |-> NoLbsRecord, save |-> NoLbsRecord, asked |-> TRUE]
  ELSE IF r.kind = "none"
  THEN [result |-> "Ok", response |-> NoLbsRecord, save |-> NoLbsRecord, asked |-> TRUE]
  ELSE [result |-> "Ok", response |-> YandexLbsResponse(r.point, "lbs"),
        save |-> IF set_ok THEN YandexLbsResponse(r.point, "lbs") ELSE NoLbsRecord,
        asked |-> TRUE]

\* is_ignore_by_cell that corrects the record also when the cell lies far
is_ignore_by_cell_FarSaved(ylr, cell, position) ==
  IF cell = 0 THEN [ignore |-> "None", save |-> NoLbsRecord]
  ELSE [ignore |-> IF Distance(cell, position) < max_distance_cell THEN "false" ELSE "true",
        save |-> YandexLbsResponse(position, IF ylr.found THEN ylr.accuracy ELSE "default")]

\* is_ignore_by_cell: cell = 0 stands for no anchor of the first cell
is_ignore_by_cell(ylr, cell, position) ==
  IF cell = 0 THEN [ignore |-> "None", save |-> NoLbsRecord]
  ELSE IF Distance(cell, position) < max_distance_cell
  THEN [ignore |-> "false",
        save |-> YandexLbsResponse(position, IF ylr.found THEN ylr.accuracy ELSE "default")]
  ELSE [ignore |-> "true", save |-> NoLbsRecord]

\* Wifi::should_be_ignored after the rules on the address and the ssid
should_be_ignored(ylr, cell, position, valid_gps, altergeo, ag) ==
  LET by_cell == is_ignore_by_cell(ylr, cell, position)
      Ret(b) == [ignored |-> b, save |-> by_cell.save, asked |-> FALSE]
  IN  IF valid_gps /\ by_cell.ignore # "None" THEN Ret(by_cell.ignore = "true")
      ELSE IF ~ylr.found THEN Ret(TRUE)
      ELSE IF Distance(position, ylr.point) <= yandex_max_distance_in_cluster THEN Ret(FALSE)
      ELSE IF by_cell.ignore # "None" THEN Ret(by_cell.ignore = "true")
      ELSE IF valid_gps THEN Ret(FALSE)
      ELSE IF ~altergeo THEN Ret(TRUE)
      ELSE IF ag.kind = "location"
                /\ Distance(position, ag.point) < yandex_max_distance_in_cluster
      THEN [ignored |-> FALSE, save |-> YandexLbsResponse(ag.point, ylr.accuracy),
            asked |-> TRUE]
      ELSE [ignored |-> TRUE, save |-> NoLbsRecord, asked |-> TRUE]

Saved(cache, m, save, set_ok) ==
  IF save.found /\ set_ok THEN [cache EXCEPT ![m] = save] ELSE cache

\* the access points are taken in the order of the vector
First(S) == CHOOSE x \in S : \A y \in S : x <= y

NoExtract ==
  [pc |-> "idle", position |-> 0, cell |-> 0, valid_gps |-> FALSE, macs |-> {},
   todo |-> {}, responses |-> [m \in Macs |-> NoLbsRecord]]

\* extract_from_report up to the request for the access points: the anchor of
\* the first cell and is_valid_gps_relative_wifi, whose error ends the call
ExtractStart(position, cell, macs, gps_ok, valid_gps) ==
  /\ ext.pc = "idle"
  /\ macs # {}
  /\ ext' = IF gps_ok
              THEN [NoExtract EXCEPT !.pc = "lbs", !.position = position, !.cell = cell,
                                     !.valid_gps = valid_gps, !.macs = macs, !.todo = macs]
              ELSE NoExtract
  /\ answer' = NoAnswerYet
  /\ UNCHANGED lbs_wifi
  /\ UNCHANGED <<cvars, pvars, kvars, evars, loc>>

\* one access point of the request of extract_from_report
ExtractLbs(get_ok, r, set_ok) ==
  /\ ext.pc = "lbs"
  /\ LET m == First(ext.todo)
         got == yandex_lbs_request_by_individual_wifi(lbs_wifi[m], get_ok, r, set_ok)
     IN  /\ lbs_wifi' = Saved(lbs_wifi, m, got.save, TRUE)
         /\ answer' = IF got.save.found THEN Answers("lbs", m, r) ELSE NoAnswerYet
         /\ ext' = IF got.result = "Err" THEN NoExtract
                    ELSE [ext EXCEPT !.responses[m] = got.response,
                                     !.todo = IF @ = {m} THEN ext.macs ELSE @ \ {m},
                                     !.pc = IF ext.todo = {m} THEN "ignore" ELSE "lbs"]
  /\ UNCHANGED <<cvars, pvars, kvars, evars, loc>>

\* one access point of the loop over wifi_vec of extract_from_report
ExtractIgnore(early, altergeo, ag, set_ok) ==
  /\ ext.pc = "ignore"
  /\ LET m == First(ext.todo)
         got == should_be_ignored(ext.responses[m], ext.cell, ext.position,
                                  ext.valid_gps, altergeo, ag)
     IN  IF early
         THEN /\ ext' = IF ext.todo = {m} THEN NoExtract ELSE [ext EXCEPT !.todo = @ \ {m}]
              /\ answer' = NoAnswerYet
              /\ UNCHANGED lbs_wifi
         ELSE /\ lbs_wifi' = Saved(lbs_wifi, m, got.save, set_ok)
              /\ answer' = IF got.asked /\ got.save.found /\ set_ok
                            THEN Answers("altergeo", m, ag) ELSE NoAnswerYet
              /\ ext' = IF ext.todo = {m} THEN NoExtract ELSE [ext EXCEPT !.todo = @ \ {m}]
  /\ UNCHANGED <<cvars, pvars, kvars, evars, loc>>

\* one access point of the request a locate query makes
LocateLbs(m, get_ok, r, set_ok) ==
  /\ LET got == yandex_lbs_request_by_individual_wifi(lbs_wifi[m], get_ok, r, set_ok)
     IN  /\ lbs_wifi' = Saved(lbs_wifi, m, got.save, TRUE)
         /\ answer' = IF got.save.found THEN Answers("lbs", m, r) ELSE NoAnswerYet
  /\ UNCHANGED ext
  /\ UNCHANGED <<cvars, pvars, kvars, evars, loc>>

\* nothing asks for access points
NoCache ==
  /\ lbs_wifi = [m \in Macs |-> NoLbsRecord]
  /\ ext = NoExtract
  /\ answer = NoAnswerYet

(***************************************************************************)
(* The estimate from the answers of the LBS (lbs/yandex.rs,                *)
(* services/locate/geolocate_public.rs).  1 / accuracy is a whole number of *)
(* units of 1 / WeightScale; a quotient is kept as numerator and           *)
(* denominator.                                                            *)
(***************************************************************************)
Degrees == (0 - MaxDeg)..MaxDeg

RECURSIVE Factorial(_)
Factorial(n) == IF n <= 1 THEN 1 ELSE n * Factorial(n - 1)
\* a common multiple of the accuracies
WeightScale == Factorial(MaxAccuracy)
\* 1.0 / ylr.location.accuracy
Inverse(accuracy) == WeightScale \div accuracy

NoneYlr == [some |-> FALSE, lat |-> 0, lon |-> 0, accuracy |-> 0]
SomeYlr(lat, lon, accuracy) == [some |-> TRUE, lat |-> lat, lon |-> lon, accuracy |-> accuracy]
Ylrs == {NoneYlr} \cup {SomeYlr(lat, lon, a) : lat \in Degrees, lon \in Degrees, a \in Accuracies}

\* the sums of the loop of estimate_location_by_yandex_responses over the
\* first n values of the map
RECURSIVE Sums(_, _)
Sums(ylrs, n) ==
  IF n = 0 THEN [lat_weight |-> 0, lon_weight |-> 0, w_weight |-> 0, accuracy |-> MaxAccuracy + 1]
  ELSE LET acc == Sums(ylrs, n - 1)
           ylr == ylrs[n]
       IN  IF ~ylr.some THEN acc
           ELSE [lat_weight |-> acc.lat_weight + ylr.lat * Inverse(ylr.accuracy),
                 lon_weight |-> acc.lon_weight + ylr.lon * Inverse(ylr.accuracy),
                 w_weight |-> acc.w_weight + Inverse(ylr.accuracy),
                 accuracy |-> IF acc.accuracy > ylr.accuracy THEN ylr.accuracy
                              ELSE acc.accuracy]

NoEstimate == [some |-> FALSE, lat |-> <<0, 1>>, lon |-> <<0, 1>>, accuracy |-> 0]

estimate_location_by_yandex_responses(ylrs) ==
  LET t == Sums(ylrs, Len(ylrs))
  IN  IF t.w_weight > 0 /\ t.lat_weight > 0 /\ t.lon_weight > 0
      THEN [some |-> TRUE, lat |-> <<t.lat_weight, t.w_weight>>,
            lon |-> <<t.lon_weight, t.w_weight>>, accuracy |-> t.accuracy]
      ELSE NoEstimate

NoResponse404 == [status |-> "none", lat |-> <<0, 1>>, lon |-> <<0, 1>>]

\* the end of the fallback of service: the estimate as the response, or NotFound
Estimate ==
  /\ estimated = NoResponse404
  /\ LET e == estimate_location_by_yandex_responses(yandex_lbs_responses)
     IN  estimated' = IF Len(yandex_lbs_responses) > 0 /\ e.some
                      THEN [status |-> "Ok", lat |-> e.lat, lon |-> e.lon]
                      ELSE [status |-> "NotFound", lat |-> <<0, 1>>, lon |-> <<0, 1>>]
  /\ UNCHANGED yandex_lbs_responses
  /\ UNCHANGED <<cvars, pvars, kvars, wvars, loc>>

\* no query falls back to the LBS
NoFallback ==
  /\ yandex_lbs_responses = <<>>
  /\ estimated = NoResponse404

(***************************************************************************)
(* The locate service (services/locate/geolocate_public.rs,                *)
(* services/locate/dbscan/outlier.rs).  The clustering library decides     *)
(* which points are noise; its decision is an input.                       *)
(***************************************************************************)
NoTl == [found |-> FALSE, point |-> 0, valid |-> FALSE]
TransmitterLocation(point, valid) == [found |-> TRUE, point |-> point, valid |-> valid]
Tls == {NoTl} \cup {TransmitterLocation(p, v) : p \in Points, v \in BOOLEAN}
Weights == 0..MaxWeight

\* what get_cell returns: no cell in the request, an error of the LBS, or the
\* map of the anchors, of which first is the value the iteration meets first
\* and anchor the first value that is an anchor (0 stands for None)
CellResults ==
  {[kind |-> "none", first |-> 0, anchor |-> 0], [kind |-> "err", first |-> 0, anchor |-> 0]}
    \cup {[kind |-> "ok", first |-> f, anchor |-> a] :
             f \in Points \cup {0}, a \in Points \cup {0}}

NoLocation == [kind |-> "none", at |-> <<0, 1>>, accuracy |-> "none"]
LocationResponsePublic(kind, at, accuracy) == [kind |-> kind, at |-> at, accuracy |-> accuracy]
NotFound == [kind |-> "NotFound", at |-> <<0, 1>>, accuracy |-> "none"]
HttpResponse(kind) == [kind |-> kind, at |-> <<0, 1>>, accuracy |-> "none"]

\* the errors a request to the LBS returns: LbsRequestError, or LbsError with
\* the status of the LBS
LbsErrors == {[kind |-> "LbsRequestError", code |-> 0]}
               \cup {[kind |-> "LbsError", code |-> c] : c \in {403, 404}}
Tile38Error == [kind |-> "Tile38Error", code |-> 0]

\* error_response that answers with the status of the LBS
error_response_StatusOfLbs(code) ==
  IF code = 400 THEN HttpResponse("BadRequest")
  ELSE IF code = 403 THEN HttpResponse("Forbidden")
  ELSE IF code = 404 THEN HttpResponse("NotFound")
  ELSE IF code = 429 THEN HttpResponse("TooManyRequests")
  ELSE HttpResponse("InternalServerError")

error_response(code) ==
  IF code = 400 THEN HttpResponse("BadRequest")
  ELSE IF code = 403 THEN HttpResponse("Forbidden")
  ELSE IF code = 429 THEN HttpResponse("TooManyRequests")
  ELSE HttpResponse("InternalServerError")

create_error_response(e) ==
  IF e.kind = "LbsError" THEN error_response(e.code) ELSE HttpResponse("InternalServerError")

\* a track of a device: the position of the first access point of its latest
\* record and the age of the record in hours
NoWifiTrack == [some |-> FALSE, fix |-> 0, hours |-> 0]
WifiTrack(fix, hours) == [some |-> TRUE, fix |-> fix, hours |-> hours]
WifiTracks == {NoWifiTrack} \cup {WifiTrack(fix, hours) : fix \in Points, hours \in 1..MaxElapsed}

NoQuery(enabled) ==
  [pc |-> "idle", enabled |-> enabled, gnss |-> 0, first |-> 0, anchor |-> 0, aps |-> {},
   tls |-> [m \in Macs |-> NoTl], todo |-> {}, responses |-> [m \in Macs |-> NoLbsRecord],
   outliers |-> {}, weight |-> [m \in Macs |-> 0],
   local |-> [c |-> 0, w_weight |-> 0],
   looked_up |-> FALSE, probed |-> FALSE, fell_back |-> FALSE, lbs_failed |-> FALSE,
   wifi_track |-> NoWifiTrack, lbs_outliers |-> {},
   response |-> NoLocation]

Respond(q, response) == [q EXCEPT !.pc = "done", !.response = response]

\* is_valid_gps_relative_cell that takes the first value that is an anchor
is_valid_gps_relative_cell_FirstAnchor(cell, p_origin) ==
  IF cell.kind = "ok" /\ cell.anchor # 0
  THEN (IF Distance(cell.anchor, p_origin) <= threshold THEN "true" ELSE "false")
  ELSE "None"

\* is_valid_gps_relative_cell: one iteration over the map of the anchors
is_valid_gps_relative_cell(cell, p_origin) ==
  IF cell.kind = "ok" /\ cell.first # 0
  THEN (IF Distance(cell.first, p_origin) <= threshold THEN "true" ELSE "false")
  ELSE "None"

\* the response to a request to the LBS that failed with e
Failed(q, e) == Respond([q EXCEPT !.lbs_failed = TRUE], create_error_response(e))

\* service up to the lookup of the access points: get_cell and the GNSS shortcut
LocateCell(gnss, aps, cell, e) ==
  /\ loc.pc = "idle"
  /\ cell.first # 0 => cell.anchor = cell.first
  /\ LET q == [NoQuery(loc.enabled) EXCEPT !.gnss = gnss, !.first = cell.first,
                                             !.anchor = cell.anchor, !.aps = aps]
     IN  loc' = IF cell.kind = "err"
                THEN Failed(q, e)
                ELSE IF gnss # 0 /\ is_valid_gps_relative_cell(cell, gnss) = "true"
                THEN Respond(q, LocationResponsePublic("Gnss", <<gnss, 1>>, "zero"))
                ELSE [q EXCEPT !.pc = "local"]
  /\ UNCHANGED <<cvars, pvars, kvars, wvars, evars>>

Found(q) == {m \in q.aps : q.tls[m].found}

\* the points the cell discards in detect_outliers, unless it discards all
Discarded(q) ==
  LET far == {m \in Found(q) : Distance(q.tls[m].point, q.anchor) > max_distance_cell}
  IN  IF q.anchor = 0 \/ far = Found(q) THEN {} ELSE far

\* detect_outliers up to its request to the LBS: the access points to ask about
ToProbe(q) ==
  LET found == Found(q)
      m1 == CHOOSE m \in found : TRUE
      m2 == CHOOSE m \in found : m # m1
  IN  IF ~q.enabled THEN {}
      ELSE IF Cardinality(found) = 1
      THEN (IF q.anchor # 0 /\ Distance(q.tls[m1].point, q.anchor) > max_distance_cell
            THEN {} ELSE found)
      ELSE IF Cardinality(found) = 2
      THEN (IF Distance(q.tls[m1].point, q.tls[m2].point) > locator_max_distance_in_cluster
            THEN found ELSE {})
      ELSE {}

\* detect_outliers where it does not ask the LBS
OutliersUnprobed(q, dbscan) ==
  LET found == Found(q)
  IN  IF Cardinality(found) = 1
      THEN (IF q.enabled /\ q.anchor # 0
                 /\ \E m \in found : Distance(q.tls[m].point, q.anchor) > max_distance_cell
            THEN found ELSE {})
      ELSE IF Cardinality(found) = 2 THEN {}
      ELSE Discarded(q) \cup (dbscan \cap (found \ Discarded(q)))

\* detect_outliers after the answers of the LBS
OutliersProbed(q, dbscan) ==
  LET found == Found(q)
      noise == {m \in found :
                  /\ q.responses[m].found
                  /\ \/ Distance(q.responses[m].point, q.tls[m].point)
                          > 2 * locator_max_distance_in_cluster
                     \/ /\ Cardinality(found) = 2
                        /\ q.anchor # 0
                        /\ Distance(q.tls[m].point, q.anchor) > max_distance_cell}
  IN  IF noise # {} THEN noise
      ELSE IF Cardinality(found) = 2 THEN dbscan \cap found
      ELSE {}

\* check_outlier that finds no outlier
check_outlier_Never(outliers, m) == FALSE

check_outlier(outliers, m) == m \in outliers

\* the sums of the loop over tls, in the order of the access points
RECURSIVE LocalSums(_, _, _, _)
LocalSums(q, outliers, weight, n) ==
  IF n = 0 THEN [lat_weight |-> 0, w_weight |-> 0, c |-> 0]
  ELSE LET acc == LocalSums(q, outliers, weight, n - 1)
       IN  IF n \in Found(q) /\ ~check_outlier(outliers, n) /\ q.tls[n].valid
           THEN [lat_weight |-> acc.lat_weight + q.tls[n].point * weight[n],
                 w_weight |-> acc.w_weight + weight[n],
                 c |-> acc.c + 1]
           ELSE acc

\* service from the outliers on, up to the fallback: the local average as the
\* response; without it the fallback starts if the LBS is enabled
Averaged(q, outliers, weight) ==
  LET t == LocalSums(q, outliers, weight, NumMacs)
      p == [q EXCEPT !.outliers = outliers, !.weight = weight, !.todo = {},
                     !.responses = [m \in Macs |-> NoLbsRecord]]
      \* the fallback does not read the records of the access points
      f == [p EXCEPT !.tls = [m \in Macs |-> NoTl], !.outliers = {},
                     !.weight = [m \in Macs |-> 0]]
  IN  IF t.c >= 1 /\ t.w_weight # 0
      THEN Respond(p, LocationResponsePublic("Local", <<t.lat_weight, t.w_weight>>, "average"))
      ELSE IF ~q.enabled THEN Respond(p, NotFound)
      ELSE IF q.aps = {} THEN Respond([p EXCEPT !.fell_back = TRUE], NotFound)
      ELSE [f EXCEPT !.pc = "track", !.todo = q.aps, !.fell_back = TRUE,
                     !.local = [c |-> t.c, w_weight |-> t.w_weight]]

\* service: the lookup of the access points, and detect_outliers up to its
\* request to the LBS, or to the end when it makes none
LocateLocal(ok, tls, dbscan, weight) ==
  /\ loc.pc = "local"
  /\ \A m \in Macs \ loc.aps : tls[m] = NoTl /\ weight[m] = 0
  /\ LET q == [loc EXCEPT !.tls = tls, !.looked_up = TRUE, !.gnss = 0, !.first = 0]
     IN  loc' = IF ~ok THEN Respond([q EXCEPT !.tls = loc.tls], create_error_response(Tile38Error))
                ELSE IF ToProbe(q) # {}
                THEN [q EXCEPT !.pc = "probe", !.todo = ToProbe(q), !.probed = TRUE]
                ELSE Averaged(q, OutliersUnprobed(q, dbscan), weight)
  /\ UNCHANGED <<cvars, pvars, kvars, wvars, evars>>

\* detect_outliers: one access point of its request to the LBS, and after the
\* last one the rest of service up to the fallback
LocateProbe(get_ok, r, e, set_ok, dbscan, weight) ==
  /\ loc.pc = "probe"
  /\ \A m \in Macs \ loc.aps : weight[m] = 0
  /\ LET m == First(loc.todo)
         got == yandex_lbs_request_by_individual_wifi(lbs_wifi[m], get_ok, r, set_ok)
         q == [loc EXCEPT !.responses[m] = got.response, !.todo = @ \ {m}]
     IN  /\ lbs_wifi' = Saved(lbs_wifi, m, got.save, TRUE)
         /\ answer' = IF got.save.found THEN Answers("lbs", m, r) ELSE NoAnswerYet
         /\ loc' = IF got.result = "Err"
                    THEN Failed(q, e)
                    ELSE IF q.todo # {} THEN q
                    ELSE Averaged(q, OutliersProbed(q, dbscan), weight)
  /\ UNCHANGED ext
  /\ UNCHANGED <<cvars, pvars, kvars, evars>>

\* the fallback of service up to its request to the LBS: the track of the
\* device, which is None without a device_id, without a track and on an error
LocateTrack(wt) ==
  /\ loc.pc = "track"
  /\ loc' = [loc EXCEPT !.pc = "fallback", !.wifi_track = wt]
  /\ UNCHANGED <<cvars, pvars, kvars, wvars, evars>>

\* check_point_by_track: the answers farther from the latest record of the
\* track than the device can have moved since
check_point_by_track(wifi_track, ylrs_filtered) ==
  IF wifi_track.some
  THEN LET d_max == Min(MAX_DISTANCE, MAX_SCOOTER_SPEED * wifi_track.hours)
       IN  {m \in Macs : /\ ylrs_filtered[m].found
                         /\ Distance(ylrs_filtered[m].point, wifi_track.fix) > d_max}
  ELSE {}

\* the answers detect_yandex_outliers removes; it does not read _wifi_track
detect_yandex_outliers(q, _wifi_track, dbscan) ==
  LET some == {m \in q.aps : q.responses[m].found}
      m1 == CHOOSE m \in some : TRUE
      m2 == CHOOSE m \in some : m # m1
      far == {m \in some : Distance(q.responses[m].point, q.anchor) > max_distance_cell}
  IN  IF Cardinality(some) = 1 THEN (IF q.anchor # 0 THEN far ELSE {})
      ELSE IF Cardinality(some) = 2
      THEN (IF Distance(q.responses[m1].point, q.responses[m2].point)
                 > yandex_max_distance_in_cluster
            THEN (IF q.anchor # 0 THEN far ELSE some)
            ELSE {})
      ELSE LET discarded == IF q.anchor = 0 \/ far = some THEN {} ELSE far
           IN  discarded \cup (dbscan \cap (some \ discarded))

\* the answers of the fallback as the estimate reads them: the positions lie on
\* the diagonal and every accuracy is one unit
RECURSIVE Remaining(_, _, _)
Remaining(q, outliers, n) ==
  IF n = 0 THEN <<>>
  ELSE Remaining(q, outliers, n - 1)
         \o (IF n \in q.aps \ outliers
             THEN <<IF q.responses[n].found
                    THEN SomeYlr(q.responses[n].point, q.responses[n].point, 1)
                    ELSE NoneYlr>>
             ELSE <<>>)

\* the fallback of service: one access point of its request to the LBS, and
\* after the last one the outlier filter, the estimate and the response
LocateFallback(get_ok, r, e, set_ok, dbscan) ==
  /\ loc.pc = "fallback"
  /\ LET m == First(loc.todo)
         got == yandex_lbs_request_by_individual_wifi(lbs_wifi[m], get_ok, r, set_ok)
         \* wifi_track is moved into detect_yandex_outliers and dropped there
         q == [loc EXCEPT !.responses[m] = got.response, !.todo = @ \ {m},
                          !.wifi_track = IF loc.todo = {m} \/ got.result = "Err"
                                         THEN NoWifiTrack ELSE loc.wifi_track]
         outliers == detect_yandex_outliers(q, loc.wifi_track, dbscan)
         left == Remaining(q, outliers, NumMacs)
         est == estimate_location_by_yandex_responses(left)
         p == [q EXCEPT !.lbs_outliers = outliers]
     IN  /\ lbs_wifi' = Saved(lbs_wifi, m, got.save, TRUE)
         /\ answer' = IF got.save.found THEN Answers("lbs", m, r) ELSE NoAnswerYet
         /\ loc' = IF got.result = "Err"
                    THEN Failed(q, e)
                    ELSE IF q.todo # {} THEN q
                    ELSE IF Len(left) > 0 /\ est.some
                    THEN Respond(p, LocationResponsePublic("Lbs", est.lat, "smallest"))
                    ELSE Respond(p, NotFound)
  /\ UNCHANGED ext
  /\ UNCHANGED <<cvars, pvars, kvars, evars>>

\* process::run, first observation of a transmitter without a record
Create(o) ==
  /\ ~tl.exists
  /\ tl' = TransmitterLocation_new(o)
  /\ observations' = <<o>>
  /\ UNCHANGED <<cvars, kvars, wvars, evars, loc, mvars, dvars, ovars>>

\* process::run, a further observation of the transmitter
Update(o) ==
  /\ tl.exists
  /\ Len(observations) <= MaxUpdates
  /\ tl' = TransmitterLocation_update(tl, o)
  /\ observations' = Append(observations, o)
  /\ UNCHANGED <<cvars, kvars, wvars, evars, loc, mvars, dvars, ovars>>

\* no transmitter is observed
NoTransmitter ==
  /\ tl = NoTransmitterLocation
  /\ observations = <<>>

(***************************************************************************)
(* Deserialization of a MAC address (services/helper/custom_deserialize.rs).*)
(* A string is a sequence of characters.                                   *)
(***************************************************************************)
\* the hexadecimal digits the strings are made of
HexDigits == {"6", "B"}

\* the strings of hexadecimal digits of a length
Digits(n) == [1..n -> HexDigits]

\* a string with a colon after every second character but the last
Colons(str) ==
  [i \in 1..(Len(str) + (Len(str) - 1) \div 2) |->
     IF i % 3 = 0 THEN ":" ELSE str[i - i \div 3]]

\* str::contains
contains(str, c) == \E i \in DOMAIN str : str[i] = c

\* [&str]::join
RECURSIVE join(_, _)
join(sections, sep) ==
  IF Len(sections) = 0 THEN <<>>
  ELSE IF Len(sections) = 1 THEN sections[1]
  ELSE sections[1] \o <<sep>> \o join(Tail(sections), sep)

\* mac_formatted: the loop that splits remaining into sections
RECURSIVE Sections(_, _)
Sections(remaining, chunk_size) ==
  IF Len(remaining) > chunk_size
  THEN <<SubSeq(remaining, 1, chunk_size)>>
         \o Sections(SubSeq(remaining, chunk_size + 1, Len(remaining)), chunk_size)
  ELSE <<remaining>>

mac_formatted(str, chunk_size) ==
  IF Len(str) # MacLength THEN str ELSE join(Sections(str, chunk_size), ":")

mac_address(str) == IF ~contains(str, ":") THEN mac_formatted(str, 2) ELSE str

NotDeserialized == [done |-> FALSE, value |-> <<>>]

\* serde calls mac_address for the field
Deserialize ==
  /\ ~deserialized.done
  /\ deserialized' = [done |-> TRUE, value |-> mac_address(macAddress)]
  /\ UNCHANGED macAddress
  /\ UNCHANGED <<cvars, kvars, wvars, evars, loc, tvars, dvars, ovars>>

\* no request is deserialized
NoMac ==
  /\ macAddress = <<>>
  /\ deserialized = [done |-> TRUE, value |-> <<>>]

\* no value of a data type is computed
(***************************************************************************)
(* DBSCAN (services/locate/dbscan/mod.rs): a point with no neighbour       *)
(* within epsilon is noise, every other point joins or seeds a cluster;    *)
(* the points are visited in insertion order and the clusters are numbered *)
(* in the order in which their first point is seen.                        *)
(***************************************************************************)
\* the points of S that are density-reachable from the points of C
RECURSIVE Reachable(_, _, _, _)
Reachable(C, S, points, eps) ==
  LET more == {j \in S \ C : \E i \in C : Distance(points[i], points[j]) <= eps}
  IN  IF more = {} THEN C ELSE Reachable(C \cup more, S, points, eps)

\* algorithm.cluster(points): the clusters in the order of their first point,
\* and the noise
RECURSIVE DBSCAN_cluster(_, _, _)
DBSCAN_cluster(S, points, eps) ==
  IF S = {} THEN [clusters |-> <<>>, noise |-> {}]
  ELSE LET i == CHOOSE x \in S : \A y \in S : x <= y
           c == Reachable({i}, S, points, eps)
           rest == DBSCAN_cluster(S \ c, points, eps)
       IN  IF c = {i}
           THEN [clusters |-> rest.clusters, noise |-> rest.noise \cup {i}]
           ELSE [clusters |-> <<c>> \o rest.clusters, noise |-> rest.noise]

(***************************************************************************)
(* detect_outliers on three or more records (outlier.rs lines 213-277).    *)
(***************************************************************************)
\* a main cluster that is the first cluster
main_cluster_id_First(actual_clusters, n, main) == 1

\* lines 243-252: the first of the clusters with the most elements, from the
\* n-th cluster on
RECURSIVE main_cluster_id(_, _, _)
main_cluster_id(actual_clusters, n, main) ==
  IF n > Len(actual_clusters) THEN main
  ELSE main_cluster_id(actual_clusters, n + 1,
         IF Cardinality(actual_clusters[n]) > Cardinality(actual_clusters[main])
         THEN n ELSE main)

\* lines 213-277: the records 1..n at the positions points, with the first
\* anchor of the cells (0: none)
detect_outliers_many(n, points, anchor) ==
  LET all == 1..n
      far == {i \in all : Distance(points[i], anchor) > max_distance_cell}
      discarded_by_cell_points == IF anchor = 0 \/ far = all THEN {} ELSE far
      filtered_by_cell_points == all \ discarded_by_cell_points
      clusters == DBSCAN_cluster(filtered_by_cell_points, points,
                                 locator_max_distance_in_cluster)
      actual_clusters == clusters.clusters
      main == main_cluster_id(actual_clusters, 1, 1)
      others == IF Len(actual_clusters) > 1
                THEN UNION {actual_clusters[k] : k \in DOMAIN actual_clusters \ {main}}
                ELSE {}
  IN  clusters.noise \cup discarded_by_cell_points \cup others

NoDetection == [pc |-> "idle", n |-> 0, points |-> <<>>, anchor |-> 0, outliers |-> {}]

\* a call of detect_outliers that returns
DetectOutliers ==
  /\ det.pc = "called"
  /\ det' = [det EXCEPT !.pc = "returned",
                         !.outliers = detect_outliers_many(det.n, det.points, det.anchor)]
  /\ UNCHANGED <<cvars, kvars, wvars, evars, loc, tvars, mvars, ovars>>

NoDetect == det = NoDetection

(***************************************************************************)
(* online_process_report_task (tasks/report.rs lines 61-204): each worker  *)
(* takes a message from rx_report and, for a report, looks the access      *)
(* point up, updates the record it got and writes the record back.         *)
(***************************************************************************)
Workers == 1..NumWorkers

\* the observations of the reports: positions and weights vary
ReportObservations ==
  {Observation(lat, 0, 1, weight, -1) : lat \in Lats, weight \in ObsWeights}

NoWorker == [pc |-> "idle", o |-> Observation(0, 0, 1, 1, -1), tl |-> NoTransmitterLocation]
Worker_new(o) == [pc |-> "lookup", o |-> o, tl |-> NoTransmitterLocation]

\* lines 135-163: transmitter.lookup, whose error skips the transmitter, and
\* tl.update or TransmitterLocation::new on the entry of modified
OnlineLookup(w, ok) ==
  /\ online.worker[w].pc = "lookup"
  /\ online' = [online EXCEPT
        !.worker[w] = IF ~ok THEN [@ EXCEPT !.pc = "skipped"]
                      ELSE [@ EXCEPT !.pc = "set",
                                     !.tl = IF wifi.exists
                                            THEN TransmitterLocation_update(wifi, online.worker[w].o)
                                            ELSE TransmitterLocation_new(online.worker[w].o)]]
  /\ UNCHANGED wifi
  /\ UNCHANGED <<cvars, kvars, wvars, evars, loc, tvars, mvars, dvars>>

\* lines 166-188: set_wifi_one, whose error is logged
OnlineSet(w, ok) ==
  /\ online.worker[w].pc = "set"
  /\ wifi' = IF ok THEN online.worker[w].tl ELSE wifi
  /\ online' = [online EXCEPT !.worker[w].pc = IF ok THEN "done" ELSE "failed"]
  /\ UNCHANGED <<cvars, kvars, wvars, evars, loc, tvars, mvars, dvars>>

NoOnline ==
  /\ wifi = NoTransmitterLocation
  /\ online = [start |-> f64(0), worker |-> [w \in Workers |-> NoWorker]]

NoValues == NoTransmitter /\ NoMac /\ NoDetect /\ NoOnline

\* no query is answered
NoLocate == loc = NoQuery(FALSE)

\* the services that process reports and answer queries do not run
NoServices ==
  /\ NoTracks
  /\ NoCache
  /\ NoFallback
  /\ NoLocate
  /\ NoValues

(***************************************************************************)
(* Specifications of the supervisor.                                       *)
(***************************************************************************)
NoAnswer == [error |-> FALSE, sent |-> "unset", got |-> "unset", promoted |-> FALSE]

\* what the supervisor and its callers start from, whatever the cluster
SupervisorStart ==
  /\ phase = "startup"
  /\ t38_nodes = EmptyNodes
  /\ t38_master_connection = NoNode
  /\ rx = <<>>
  /\ reply = [c \in Callers |-> "idle"]
  /\ tasks = {}
  /\ lastPromoted = NoNode
  /\ lastAnswer = NoAnswer
  /\ reinserted = {}

\* a cluster with master A and no persisted file; an instance that is down at
\* start-up may come back as a replica of A or as a stand-alone master
InitT38 ==
  /\ SupervisorStart
  /\ NoScheduler
  /\ NoCommand /\ NoRequests /\ NoIngestor /\ NoServices
  /\ status \in [Instances -> {"down", "up"}]
  /\ follows \in [Instances -> {NoNode, InstanceList[1]}]
  /\ follows[InstanceList[1]] = NoNode
  /\ \A n \in Instances \ {InstanceList[1]} : follows[n] = NoNode => status[n] = "down"
  /\ budget = MaxFaults
  /\ t38_config_file = NoFile
  /\ nodeOrder \in Orders

Supervisor == HandleGetConnection \/ HandleRecoverFailedNode

Recovery == \E t \in tasks : RecoverProbe(t) \/ RecoverConnect(t) \/ RecoverFollow(t)

NextT38 ==
  \/ Startup
  \/ HandleGetConnection
  \/ HandleRecoverFailedNode
  \/ \E t \in tasks : RecoverProbe(t)
  \/ \E t \in tasks : RecoverConnect(t)
  \/ \E t \in tasks : RecoverFollow(t)
  \/ \E c \in Callers, e \in BOOLEAN : Call(c, e)
  \/ \E n \in Instances : Kill(n)
  \/ \E n \in Instances : Revive(n)
  \/ \E n \in Instances : Loaded(n)

SpecT38 == InitT38 /\ [][NextT38]_vars

\* the same cluster with every instance up at start-up
InitT38Live ==
  /\ SupervisorStart
  /\ NoScheduler
  /\ NoCommand /\ NoRequests /\ NoIngestor /\ NoServices
  /\ status = [n \in Instances |-> "up"]
  /\ follows = [n \in Instances |-> IF n = InstanceList[1] THEN NoNode ELSE InstanceList[1]]
  /\ budget = MaxFaultsLive
  /\ t38_config_file = NoFile
  /\ nodeOrder \in Orders

\* the tokio runtime schedules the message loop and every spawned task
FairSpecT38 ==
  /\ InitT38Live /\ [][NextT38]_vars
  /\ WF_vars(Supervisor)
  /\ WF_vars(Recovery)

\* start-up alone, over every cluster in which replicas follow masters and every
\* persisted file, followed by obtain_connection(None)
InitStartup ==
  /\ SupervisorStart
  /\ NoScheduler
  /\ NoCommand /\ NoRequests /\ NoIngestor /\ NoServices
  /\ status \in [Instances -> {"down", "loading", "up"}]
  /\ follows \in [Instances -> Instances \cup {NoNode}]
  /\ \A n \in Instances : follows[n] # NoNode => follows[follows[n]] = NoNode
  /\ budget = 0
  /\ t38_config_file \in {NoFile} \cup
        {T38Config(ms[1], ms[2]) : ms \in {x \in Instances \X Instances : x[1] # x[2]}}
  /\ nodeOrder = InstanceList

NextStartup ==
  \/ Startup
  \/ \E c \in Callers : Call(c, FALSE)
  \/ HandleGetConnection

SpecStartup == InitStartup /\ [][NextStartup]_vars

(***************************************************************************)
(* Properties of the supervisor.                                           *)
(***************************************************************************)
Labelled(role) == {n \in DOMAIN t38_nodes : t38_nodes[n].role = role}

\* a replica of the topology that answers commands
ReachableReplica(n) == n \in Labelled("slave") /\ status[n] = "up"

\* the stored master is the one node labelled master and does not accept a connection
MasterUnreachable ==
  /\ Labelled("master") = {t38_master_connection}
  /\ ~CanConnect(t38_master_connection)

ForcedCall == HandleGetConnection /\ Head(rx).error

\* C1: on obtain_connection(Some(error)) with the master unreachable and some
\* replica reachable, a reachable replica is promoted (FOLLOW no one), adopted as
\* master and the caller gets a connection to it
C1_PromotesReachableReplica ==
  [][(ForcedCall /\ MasterUnreachable /\ \E n \in Instances : ReachableReplica(n))
       => \E n \in Instances :
            /\ ReachableReplica(n)
            /\ follows'[n] = NoNode
            /\ t38_nodes'[n].role = "master"
            /\ t38_master_connection' = n
            /\ lastAnswer'.got = n]_vars

\* C2: after a failover every obtain_connection(None) is answered with a
\* connection to the node the latest failover promoted
C2_NoneReturnsPromoted ==
  (lastPromoted # NoNode /\ lastAnswer.sent # "unset" /\ ~lastAnswer.error)
    => lastAnswer.got = lastPromoted

LatestFailover(a) == t38_config_file.exists /\ t38_config_file.slave = a
Recovering(a) == \E t \in tasks : t.failed = a /\ t.master = t38_config_file.master
StaysRecoverable(a) ==
  /\ LatestFailover(a)
  /\ status[a] = "up"
  /\ \A t \in tasks : t.failed = a => t.master = t38_config_file.master
ReplicaOfMaster(a) ==
  /\ a \in reinserted
  /\ a \in Labelled("slave")
  /\ t38_nodes[a].state = "active"
  /\ follows[a] = t38_config_file.master

C5_EveryCallAnswered ==
  /\ \A c \in Callers : (reply[c] = "waiting") ~> (reply[c] # "waiting")
  /\ [](lastAnswer.sent # "unset" =>
         lastAnswer.got = "error" \/ lastAnswer.got = t38_master_connection)

C5_Witness ==
  lastAnswer.error /\ lastAnswer.sent = "none" /\ lastAnswer.got = "error"
    /\ \A c \in Callers : reply[c] = "idle"

\* C6: with a persisted file at start-up and every instance reporting a role,
\* exactly the file's master is labelled master and obtain_connection(None) is
\* answered with a connection to it
C6_FileMasterAdopted ==
  (phase = "serving" /\ t38_config_file.exists /\ \A n \in Instances : status[n] = "up")
    => /\ Labelled("master") = {t38_config_file.master}
       /\ t38_master_connection = t38_config_file.master
       /\ lastAnswer.sent # "unset" => lastAnswer.got = t38_config_file.master

(***************************************************************************)
(* Specifications of the command wrappers with the supervisor.             *)
(***************************************************************************)
\* the cluster of InitT38, with one caller that runs commands
InitCmd ==
  /\ SupervisorStart
  /\ NoScheduler
  /\ NoCommand /\ NoRequests /\ NoIngestor /\ NoServices
  /\ status \in [Instances -> {"down", "up"}]
  /\ follows \in [Instances -> {NoNode, InstanceList[1]}]
  /\ follows[InstanceList[1]] = NoNode
  /\ \A n \in Instances \ {InstanceList[1]} : follows[n] = NoNode => status[n] = "down"
  /\ budget = MaxFaultsCmd
  /\ t38_config_file = NoFile
  /\ nodeOrder \in Orders

Command == \E out \in {"ok", "io", "busy loading", "not found", "other"} : CmdRun(out)

NextCmd ==
  \/ Startup
  \/ HandleGetConnection
  \/ HandleRecoverFailedNode
  \/ \E t \in tasks : RecoverProbe(t)
  \/ \E t \in tasks : RecoverConnect(t)
  \/ \E t \in tasks : RecoverFollow(t)
  \/ \E f \in {"exec_cmd", "query_cmd"} : CmdStart(f)
  \/ \E out \in {"ok", "io", "busy loading", "not found", "other"} : CmdRun(out)
  \/ \E n \in Instances : Kill(n)
  \/ \E n \in Instances : Revive(n)
  \/ \E n \in Instances : Loaded(n)

SpecCmd == InitCmd /\ [][NextCmd]_vars

\* the tokio runtime schedules the message loop, every spawned task and the
\* task that runs the command; an instance that loads its dataset finishes
FairSpecCmd ==
  /\ InitCmd /\ [][NextCmd]_vars
  /\ WF_vars(Supervisor)
  /\ WF_vars(Recovery)
  /\ WF_vars(Command)
  /\ WF_vars(\E n \in Instances : Loaded(n))

(***************************************************************************)
(* Properties of the command wrappers.                                     *)
(***************************************************************************)
\* the command was run in this step and failed with the error e
RunFailed(e) == cmd.pc = "run" /\ cmd'.pc # "run" /\ cmd'.e = e

\* C12: every call of exec_cmd and of query_cmd returns
C12_CommandTerminates ==
  (cmd.pc \notin {"idle", "done"}) ~> (cmd.pc = "done")

\* C13: in exec_cmd and in query_cmd an error "id not found" or "key not found"
\* is returned at once: no sleep, no retry, no get_conection(Some(e))
C13_NotFoundReturnedAtOnce ==
  [][RunFailed("not found") =>
       /\ cmd'.pc = "done"
       /\ cmd'.result = "not found"
       /\ rx' = rx]_vars

\* C14: on a "busy loading" error exec_cmd and query_cmd fail at once, without a
\* retry and without get_conection(Some(e)), and no failover demotes a master
\* that is loading its dataset
C14_BusyLoadingFailsFast ==
  /\ [][RunFailed("busy loading") =>
          /\ cmd'.pc = "done"
          /\ cmd'.result = "NotConnected"
          /\ rx' = rx
          /\ UNCHANGED <<t38_nodes, t38_master_connection, follows, t38_config_file>>]_vars
  /\ [][\A t \in tasks' \ tasks :
          t.pc = "probe" => (status[t.failed] = "down" /\ cmd.e # "busy loading")]_vars

\* the command failed on the loading master while a replica answered
\* commands, and no failover has taken place
C14_Witness ==
  /\ cmd.pc = "done"
  /\ cmd.e = "busy loading"
  /\ cmd.result = "NotConnected"
  /\ status[cmd.connection] = "loading"
  /\ cmd.connection \in Labelled("master")
  /\ \E n \in Instances : ReachableReplica(n)
  /\ lastPromoted = NoNode
  /\ rx = <<>>

(***************************************************************************)
(* Specifications of the key scheduler.                                    *)
(***************************************************************************)
\* the Tile38 supervisor is left out
NoSupervisor ==
  /\ SupervisorStart
  /\ status = [n \in Instances |-> "up"]
  /\ follows = [n \in Instances |-> IF n = InstanceList[1] THEN NoNode ELSE InstanceList[1]]
  /\ budget = 0
  /\ t38_config_file = NoFile
  /\ nodeOrder = InstanceList

InitYandex ==
  /\ NoSupervisor
  /\ NoCommand /\ NoRequests /\ NoIngestor /\ NoServices
  /\ api_keys \in 0..MaxKeys
  /\ invalidLeft = MaxInvalid
  /\ SchedulerStart

Scheduler == HandleGetApiKey \/ HandleInvalidApiKey \/ HandleValidApipKey

Worker ==
  \/ RecvInvalidKey
  \/ Tick
  \/ \E i \in ConfiguredKeys(api_keys) : ProbeSend(i)
  \/ \E i \in ConfiguredKeys(api_keys), ok \in BOOLEAN : Probe(i, ok)


NextYandex ==
  \/ HandleGetApiKey
  \/ HandleInvalidApiKey
  \/ HandleValidApipKey
  \/ RecvInvalidKey
  \/ Tick
  \/ \E i \in ConfiguredKeys(api_keys) : ProbeSend(i)
  \/ \E i \in ConfiguredKeys(api_keys), ok \in BOOLEAN : Probe(i, ok)
  \/ RequestKey
  \/ \E i \in ConfiguredKeys(api_keys) : ReportInvalidKey(i)

SpecYandex == InitYandex /\ [][NextYandex]_vars

InitYandexLive ==
  /\ NoSupervisor
  /\ NoCommand /\ NoRequests /\ NoIngestor /\ NoServices
  /\ api_keys \in 0..MaxKeys
  /\ invalidLeft = MaxInvalidLive
  /\ SchedulerStart

\* the runtime schedules the message loop and the worker, the interval keeps
\* ticking, and LBS requests keep arriving
FairSpecYandex ==
  /\ InitYandexLive /\ [][NextYandex]_vars
  /\ WF_vars(Scheduler)
  /\ WF_vars(Worker)
  /\ WF_vars(RequestKey)

(***************************************************************************)
(* Properties of the key scheduler.                                        *)
(***************************************************************************)
\* C7: once InvalidApiKey(i) is processed, i is not active and no GetApiKey reply
\* carries it until ValidApipKey(i) is processed; with two keys and the first
\* one invalidated, GetApiKey answers with the second
C7_QuarantinedNotServed ==
  /\ [](blocked \cap active_api_keys = {})
  /\ [][HandleGetApiKey =>
         /\ lastGet'.kind = "Some" => lastGet'.i \notin blocked
         /\ (api_keys = 2 /\ blocked = {0}) => lastGet' = Some(1)]_vars

C7_Witness ==
  api_keys = 2 /\ blocked = {0} /\ active_api_keys = {1} /\ lastGet = Some(1) /\ streak > 1

\* C8: a key whose probe returned 200 is moved back to the active set, and is
\* handed out by GetApiKey again unless it is invalidated again first
C8_ReactivatedServedAgain ==
  \A i \in ConfiguredKeys(MaxKeys) :
    /\ (\E k \in DOMAIN yrx : yrx[k] = ValidApipKeyMsg(i))
         ~> (i \in restored /\ i \in active_api_keys)
    /\ (i \in restored) ~> (lastGet = Some(i) \/ i \notin restored)

\* C9: while every configured key is active and no key event intervenes,
\* successive GetApiKey replies carry consecutive indices modulo the number of keys
C9_RoundRobin ==
  [][(HandleGetApiKey /\ streak > 0 /\ api_keys > 0
        /\ active_api_keys = ConfiguredKeys(api_keys))
       => lastGet' = Some((lastGet.i + 1) % api_keys)]_vars

\* the rotation wrapped around after a key came back
C9_Witness ==
  /\ api_keys = MaxKeys
  /\ active_api_keys = ConfiguredKeys(api_keys)
  /\ restored # {}
  /\ streak > 1
  /\ lastGet = Some(0)

\* C10: GetApiKey answers None exactly when the active set is empty, and
\* otherwise with a key of the active set
C10_NoneIffEmpty ==
  [][HandleGetApiKey =>
       /\ lastGet'.kind = "None" <=> active_api_keys = {}
       /\ active_api_keys # {} => (lastGet'.kind = "Some" /\ lastGet'.i \in active_api_keys)]_vars

\* every key is quarantined and the request is told so
C10_Witness ==
  lastGet = None /\ api_keys > 0 /\ active_api_keys = {} /\ blocked = ConfiguredKeys(api_keys)

(***************************************************************************)
(* Specification of the LBS requests with the key scheduler.               *)
(***************************************************************************)
InitLbs ==
  /\ NoSupervisor
  /\ NoCommand /\ NoIngestor /\ NoServices
  /\ api_keys \in 1..MaxKeys
  /\ invalidLeft = 0
  /\ SchedulerStart
  /\ lbs = [c \in Requests |-> Idle]
  /\ permits = rate_limit
  /\ calls = MaxCalls

NextLbs ==
  \/ HandleGetApiKey
  \/ HandleInvalidApiKey
  \/ HandleValidApipKey
  \/ RecvInvalidKey
  \/ Tick
  \/ \E i \in ConfiguredKeys(api_keys) : ProbeSend(i)
  \/ \E i \in ConfiguredKeys(api_keys), ok \in BOOLEAN : Probe(i, ok)
  \/ \E c \in Requests : LbsStart(c)
  \/ \E c \in Requests : LbsKey(c)
  \/ \E c \in Requests : LbsAcquire(c)
  \/ \E c \in Requests : LbsSend(c)
  \/ \E c \in Requests, r \in Responses : LbsResponse(c, r)
  \/ \E c \in Requests : LbsReturn(c)

SpecLbs == InitLbs /\ [][NextLbs]_vars

(***************************************************************************)
(* Properties of the LBS requests.                                         *)
(***************************************************************************)
\* the request c got the response r to its latest HTTP request in this step
Answered(c, r) == lbs[c].pc = "sent" /\ lbs'[c].pc # "sent" /\ lbs'[c].last = r

\* C11: when the HTTP request of an LBS request that holds key i ends in a
\* transport failure, InvalidApiKey(i) is sent to the key scheduler, as it is
\* when the LBS answers 403
C11_TransportFailureQuarantines ==
  [][\A c \in Requests :
       Answered(c, Transport) => yrx' = Append(yrx, InvalidApiKeyMsg(lbs[c].i))]_vars

\* C15: the number of HTTP requests to the LBS in flight, those of the requests
\* per access point and per cell and the probes of the reactivation worker,
\* never exceeds config.yandex_lbs.rate_limit
C15_InFlightWithinRateLimit == InFlight <= rate_limit

\* C16: when the LBS answers 403 to a request made with key i, the request
\* sends InvalidApiKey(i) to the scheduler and returns LbsError(403) without
\* another HTTP request
C16_ForbiddenInvalidatesKey ==
  [][\A c \in Requests :
       Answered(c, Status(403)) =>
         /\ yrx' = Append(yrx, InvalidApiKeyMsg(lbs[c].i))
         /\ lbs'[c].pc = "done"
         /\ lbs'[c].result = LbsError(403)
         /\ lbs'[c].attempt = lbs[c].attempt]_vars

\* a request was answered 403 after a retry and the scheduler has quarantined its key
C16_Witness ==
  \E c \in Requests :
    /\ lbs[c].pc = "done"
    /\ lbs[c].last = Status(403)
    /\ lbs[c].result = LbsError(403)
    /\ lbs[c].attempt > 1
    /\ lbs[c].i \in blocked
    /\ lbs[c].i \notin active_api_keys

RetryStatuses == {429, 500, 504}

\* C17: when the LBS answers 429, 500 or 504 the request is sent again, with the
\* same key, at most count_attempts times; when the status persists the request
\* returns LbsError(status); and a request that was tried again never returns
\* without an entry for the item or an error
C17_RetriesThenResultOrError ==
  /\ [][\A c \in Requests : \A st \in RetryStatuses :
          Answered(c, Status(st)) =>
            IF lbs[c].attempt < count_attempts
            THEN /\ lbs'[c].pc = "loop"
                 /\ lbs'[c].i = lbs[c].i
                 /\ lbs'[c].attempt = lbs[c].attempt
            ELSE /\ lbs'[c].pc = "done"
                 /\ lbs'[c].result = LbsError(st)]_vars
  /\ [](\A c \in Requests :
          (lbs[c].pc = "done" /\ lbs[c].attempt > 1)
            => (lbs[c].entry # "absent" \/ lbs[c].result.kind # "Ok"))

\* C18: a transport error on the HTTP request of an LBS request makes the
\* request return LbsRequestError
C18_TransportErrorSurfaced ==
  [][\A c \in Requests :
       Answered(c, Transport) =>
         /\ lbs'[c].pc = "done"
         /\ lbs'[c].result = LbsRequestError]_vars

\* the transport error came after the request had been tried again
C18_Witness ==
  \E c \in Requests :
    /\ lbs[c].pc = "done"
    /\ lbs[c].last = Transport
    /\ lbs[c].result = LbsRequestError
    /\ lbs[c].attempt > 1

(***************************************************************************)
(* Specification of the batch ingestor.                                    *)
(***************************************************************************)
\* the record of the access point after the observations of k reports
RECURSIVE Cached(_)
Cached(k) ==
  IF k = 0 THEN NoTransmitterLocation
  ELSE IF k = 1 THEN TransmitterLocation_new(BatchObservation)
  ELSE TransmitterLocation_update(Cached(k - 1), BatchObservation)

\* the record of the access point holds the observations of the reports that
\* are processed
InitBatch ==
  /\ NoSupervisor
  /\ NoScheduler
  /\ NoCommand /\ NoRequests
  /\ NoTracks /\ NoCache /\ NoFallback /\ NoLocate
  /\ NoTransmitter /\ NoMac /\ NoDetect
  /\ report \in [ReportIds -> {Row(p, FALSE) : p \in BOOLEAN}]
  /\ txn = report
  /\ batch = NoBatch
  /\ wifi = Cached(Cardinality({id \in ReportIds : report[id].processed_at}))
  /\ online = [start |-> f64(0), worker |-> [w \in Workers |-> NoWorker]]

NextBatch ==
  \/ BatchStart
  \/ \E out \in SqlOutcomes : BatchSelect(out)
  \/ \E out \in SqlOutcomes, extracted \in BOOLEAN, out_error \in SqlOutcomes,
        lookup_ok \in BOOLEAN :
        BatchReport(out, extracted, out_error, lookup_ok)
  \/ \E out \in SqlOutcomes, set_ok \in BOOLEAN : BatchInsert(out, set_ok)
  \/ \E out \in SqlOutcomes : BatchCommit(out)

SpecBatch == InitBatch /\ [][NextBatch]_vars

(***************************************************************************)
(* Properties of the batch ingestor.                                       *)
(***************************************************************************)
\* C19: when the processing of a report of the batch fails, processing_error of
\* the report is set in the transaction, and the run goes on with the rest of
\* the batch towards the commit
C19_FailedReportMarked ==
  [][\A id \in batch'.failed \ batch.failed :
       /\ txn'[id].processing_error
       /\ batch'.result # "Err"
       /\ batch'.pc \in {"report", "insert"}]_vars

\* C20: a run that meets a serialization failure or a deadlock, at whatever
\* statement, ends without an error, with the reports of its batch unprocessed
C20_SerializationFailureYields ==
  (batch.pc = "done" /\ batch.err \in {"40001", "40P01"})
    => /\ batch.result = "Ok"
       /\ \A id \in batch.selected : ~report[id].processed_at

(***************************************************************************)
(* Specification of the track of one device.                               *)
(***************************************************************************)
InitTrack ==
  /\ NoSupervisor
  /\ NoScheduler
  /\ NoCommand /\ NoRequests /\ NoIngestor
  /\ NoCache /\ NoFallback /\ NoLocate /\ NoValues
  /\ track = <<>>
  /\ wtp = NoTrackCall
  /\ tracked = 0

NextTrack ==
  \/ \E ts \in Timestamps, ok \in BOOLEAN : TrackGet(ts, ok)
  \/ \E ok \in BOOLEAN : TrackSet(ok)

SpecTrack == InitTrack /\ [][NextTrack]_vars

Records(t) == {t[k] : k \in DOMAIN t}

\* C21: the stored track never holds more than TRACK_SIZE_THRESHOLD + 1
\* records, and a record a write drops from a full track is one with the
\* smallest timestamp of that track
C21_TrackCappedOldestEvicted ==
  [][/\ Len(track') <= TRACK_SIZE_THRESHOLD + 1
     /\ \A r \in Records(track) \ Records(track') :
          /\ Len(track) = TRACK_SIZE_THRESHOLD + 1
          /\ \A q \in Records(track) : r.ts <= q.ts]_vars

\* a full track after an eviction: the record that was the last one has taken
\* the place of the evicted one, so the stored order is not the order of arrival
C21_Witness ==
  /\ Len(track) = TRACK_SIZE_THRESHOLD + 1
  /\ track[1].n > track[2].n
  /\ track[1].ts > track[2].ts

(***************************************************************************)
(* Specification of the cache of LBS answers.                              *)
(***************************************************************************)
InitCache ==
  /\ NoSupervisor
  /\ NoScheduler
  /\ NoCommand /\ NoRequests /\ NoIngestor
  /\ NoTracks /\ NoFallback /\ NoLocate /\ NoValues
  /\ lbs_wifi = [m \in Macs |-> NoLbsRecord]
  /\ ext = NoExtract
  /\ answer = NoAnswerYet

\* the inputs a step does not read are not varied
NoResult == [kind |-> "none", point |-> 0]
Saves(r) == IF r.kind = "location" THEN BOOLEAN ELSE {TRUE}

NextCache ==
  \/ \E position \in Points, cell \in Points \cup {0}, macs \in SUBSET Macs, gps_ok \in BOOLEAN :
        \E valid_gps \in IF gps_ok THEN BOOLEAN ELSE {FALSE} :
           ExtractStart(position, cell, macs, gps_ok, valid_gps)
  \/ \E get_ok \in BOOLEAN :
        \E r \in IF get_ok THEN LbsResults ELSE {NoResult} :
           \E set_ok \in Saves(r) : ExtractLbs(get_ok, r, set_ok)
  \/ \E early \in BOOLEAN :
        \E altergeo \in IF early THEN {FALSE} ELSE BOOLEAN :
           \E ag \in IF altergeo THEN AlterGeoResults ELSE {NoResult} :
              \E set_ok \in IF early THEN {TRUE} ELSE BOOLEAN :
                 ExtractIgnore(early, altergeo, ag, set_ok)
  \/ \E m \in Macs, get_ok \in BOOLEAN :
        \E r \in IF get_ok THEN LbsResults ELSE {NoResult} :
           \E set_ok \in Saves(r) : LocateLbs(m, get_ok, r, set_ok)

SpecCache == InitCache /\ [][NextCache]_vars

\* the step writes the record of m with the location the LBS returned for m
WrittenFromLbs(m) ==
  /\ answer' = [by |-> "lbs", mac |-> m, point |-> lbs_wifi'[m].point]
  /\ ~lbs_wifi[m].found

\* the step is the check of m in a report whose first cell lies within
\* max_distance_cell of the position of the report, and writes that position
WrittenFromReport(m) ==
  /\ ext.pc = "ignore" /\ m = First(ext.todo)
  /\ ext.cell # 0 /\ Distance(ext.cell, ext.position) < max_distance_cell
  /\ lbs_wifi'[m].point = ext.position

\* the step is the check of m in a report, and writes the position AlterGeo
\* returned for m, which lies within max_distance_in_cluster of the report's
WrittenFromAlterGeo(m) ==
  /\ ext.pc = "ignore" /\ m = First(ext.todo)
  /\ answer' = [by |-> "altergeo", mac |-> m, point |-> lbs_wifi'[m].point]
  /\ Distance(ext.position, lbs_wifi'[m].point) < yandex_max_distance_in_cluster

\* C22: a step that changes the cached record of an access point writes the
\* location a successful LBS query returned for that access point in that step
C22_WrittenOnlyFromLbs ==
  [][\A m \in Macs : lbs_wifi'[m] # lbs_wifi[m] => WrittenFromLbs(m)]_vars

\* C22, amended: a step that changes the cached record of an access point
\* writes the location the LBS returned for it, there being no record yet, or
\* is the check of the access point in a report and writes the position of the
\* report (first cell within max_distance_cell) or the position AlterGeo
\* returned (within max_distance_in_cluster of the report)
C22_WrittenFromLbsOrCorrected ==
  [][\A m \in Macs : lbs_wifi'[m] # lbs_wifi[m] =>
        \/ WrittenFromLbs(m)
        \/ WrittenFromReport(m)
        \/ WrittenFromAlterGeo(m)]_vars

\* the record of an access point holds what the LBS never returned for it: the
\* default accuracy, written by the check against the cell
C22_Witness ==
  \E m \in Macs : lbs_wifi[m].found /\ lbs_wifi[m].accuracy = "default"

(***************************************************************************)
(* Specification of the estimate from the answers of the LBS.              *)
(***************************************************************************)
InitEstimate ==
  /\ NoSupervisor
  /\ NoScheduler
  /\ NoCommand /\ NoRequests /\ NoIngestor
  /\ NoTracks /\ NoCache /\ NoLocate /\ NoValues
  /\ yandex_lbs_responses \in UNION {[1..n -> Ylrs] : n \in 0..MaxAps}
  /\ estimated = NoResponse404

NextEstimate == Estimate

SpecEstimate == InitEstimate /\ [][NextEstimate]_vars

Survivors == {k \in DOMAIN yandex_lbs_responses : yandex_lbs_responses[k].some}

\* the value of answer k in the sum named f
Term(k, f) ==
  IF f = "lat" THEN yandex_lbs_responses[k].lat
  ELSE IF f = "lon" THEN yandex_lbs_responses[k].lon
  ELSE 1

RECURSIVE WeightedSum(_, _)
WeightedSum(S, f) ==
  IF S = {} THEN 0
  ELSE LET k == CHOOSE x \in S : TRUE
       IN  Term(k, f) * Inverse(yandex_lbs_responses[k].accuracy) + WeightedSum(S \ {k}, f)

\* C26: when at least one answer of the LBS is left after the outlier filter,
\* the query answers with the mean of the answers weighted by 1 / accuracy,
\* wherever they lie
C26_SurvivorsAveraged ==
  (estimated.status # "none" /\ Survivors # {})
    => /\ estimated.status = "Ok"
       /\ estimated.lat[1] * WeightedSum(Survivors, "one")
            = WeightedSum(Survivors, "lat") * estimated.lat[2]
       /\ estimated.lon[1] * WeightedSum(Survivors, "one")
            = WeightedSum(Survivors, "lon") * estimated.lon[2]

(***************************************************************************)
(* Specification of the locate service.                                    *)
(***************************************************************************)
InitLocate ==
  /\ NoSupervisor
  /\ NoScheduler
  /\ NoCommand /\ NoRequests /\ NoIngestor
  /\ NoTracks /\ NoFallback /\ NoValues
  /\ lbs_wifi \in [Macs -> {NoLbsRecord} \cup {YandexLbsResponse(p, "lbs") : p \in Points}]
  /\ ext = NoExtract
  /\ answer = NoAnswerYet
  /\ \E enabled \in BOOLEAN : loc = NoQuery(enabled)

\* the access points of the query alone have records and weights
TlsOf(aps) == {tls \in [Macs -> Tls] : \A m \in Macs \ aps : tls[m] = NoTl}
WeightsOf(aps) == {weight \in [Macs -> Weights] : \A m \in Macs \ aps : weight[m] = 0}
\* what the clustering library calls noise, where it is called
DbscanResults(called) == IF called THEN SUBSET Macs ELSE {{}}

\* the error of a request that fails
ErrorsOf(failed) == IF failed THEN LbsErrors ELSE {Tile38Error}

NextLocate ==
  \/ \E gnss \in Points \cup {0}, aps \in SUBSET Macs, cell \in CellResults :
        \E e \in ErrorsOf(cell.kind = "err") : LocateCell(gnss, aps, cell, e)
  \/ \E ok \in BOOLEAN :
        \E tls \in IF ok THEN TlsOf(loc.aps) ELSE {[m \in Macs |-> NoTl]} :
           \E dbscan \in DbscanResults(Cardinality({m \in Macs : tls[m].found}) > 2) :
              \E weight \in IF ok THEN WeightsOf(loc.aps) ELSE {[m \in Macs |-> 0]} :
                 LocateLocal(ok, tls, dbscan, weight)
  \/ \E get_ok \in BOOLEAN :
        \E r \in IF get_ok THEN LbsResults ELSE {NoResult} :
           \E e \in ErrorsOf(r.kind = "error"), set_ok \in Saves(r),
              dbscan \in DbscanResults(Cardinality(Found(loc)) = 2),
              weight \in WeightsOf(loc.aps) :
              LocateProbe(get_ok, r, e, set_ok, dbscan, weight)
  \/ \E get_ok \in BOOLEAN :
        \E r \in IF get_ok THEN LbsResults ELSE {NoResult} :
           \E e \in ErrorsOf(r.kind = "error"), set_ok \in Saves(r),
              dbscan \in DbscanResults(Cardinality(loc.aps) > 2) :
              LocateFallback(get_ok, r, e, set_ok, dbscan)
  \/ \E wt \in WifiTracks : LocateTrack(wt)

SpecLocate == InitLocate /\ [][NextLocate]_vars

(***************************************************************************)
(* Properties of the locate service.                                       *)
(***************************************************************************)
\* the records of the access points that are valid and no outliers
Contributors(q) == {m \in Found(q) : q.tls[m].valid /\ m \notin q.outliers}

RECURSIVE LocalSum(_, _, _)
LocalSum(q, S, positions) ==
  IF S = {} THEN 0
  ELSE LET m == CHOOSE x \in S : TRUE
       IN  (IF positions THEN q.tls[m].point ELSE 1) * q.weight[m]
             + LocalSum(q, S \ {m}, positions)

\* the weighted mean of the contributors is a number
Averageable(q) == Contributors(q) # {} /\ LocalSum(q, Contributors(q), FALSE) # 0

ErrorKinds == {"BadRequest", "Forbidden", "TooManyRequests", "InternalServerError"}

\* C24: when a request to the LBS made for a query fails, for the anchors of
\* the cells, for the outliers or in the fallback, the query is over and its
\* response is an error: not NotFound, not a location
C24_LbsFailureIsError ==
  loc.lbs_failed => loc.pc = "done" /\ loc.response.kind \in ErrorKinds

\* the request of the fallback failed
C24_Witness ==
  /\ loc.lbs_failed
  /\ loc.fell_back
  /\ loc.response.kind = "InternalServerError"

InitTransmitter ==
  /\ NoSupervisor
  /\ NoScheduler
  /\ NoCommand /\ NoRequests /\ NoIngestor
  /\ NoTracks /\ NoCache /\ NoFallback /\ NoLocate /\ NoMac /\ NoDetect /\ NoOnline
  /\ tl = NoTransmitterLocation
  /\ observations = <<>>

NextTransmitter ==
  \/ \E o \in Observations : Create(o)
  \/ \E o \in Observations : Update(o)

SpecTransmitter == InitTransmitter /\ [][NextTransmitter]_vars

\* the sum over the observations of weight, or of weight times a field
RECURSIVE Total(_, _)
Total(n, field) ==
  IF n = 0 THEN 0
  ELSE LET o == observations[n]
       IN  o.weight * (IF field = "lat" THEN o.lat
                       ELSE IF field = "lon" THEN o.lon
                       ELSE IF field = "accuracy" THEN o.accuracy
                       ELSE 1)
             + Total(n - 1, field)

\* x is the weighted mean of a field over all the observations
IsMean(x, field) ==
  x[1] * Total(Len(observations), "weight") = Total(Len(observations), field) * x[2]

Macs_in ==
  UNION {Digits(n) : n \in (MacLength - 1)..(MacLength + 1)}
    \cup {Colons(str) : str \in Digits(MacLength)}

InitMac ==
  /\ NoSupervisor
  /\ NoScheduler
  /\ NoCommand /\ NoRequests /\ NoIngestor
  /\ NoTracks /\ NoCache /\ NoFallback /\ NoLocate /\ NoTransmitter /\ NoDetect /\ NoOnline
  /\ macAddress \in Macs_in
  /\ deserialized = NotDeserialized

NextMac == Deserialize

SpecMac == InitMac /\ [][NextMac]_vars

\* char::to_ascii_lowercase on the hexadecimal digits
to_ascii_lowercase(c) == IF c = "B" THEN "b" ELSE c

\* the form xx:xx:xx:xx:xx:xx in lowercase of an address given without colons
ColonLowercase(str) == Colons([i \in DOMAIN str |-> to_ascii_lowercase(str[i])])

\* twelve hexadecimal digits without a separator
Bare(str) == Len(str) = MacLength /\ ~contains(str, ":")

\* C29: an address of twelve hexadecimal digits without separators is
\* deserialized to its form xx:xx:xx:xx:xx:xx in lowercase
C29_BareMacNormalized ==
  (deserialized.done /\ Bare(macAddress)) => deserialized.value = ColonLowercase(macAddress)

(***************************************************************************)
(* The topology of the supervisor.                                         *)
(***************************************************************************)
\* C30: once the supervisor serves, exactly one node of t38_nodes is labelled
\* master and it is the node of t38_master_connection, whatever failovers,
\* recovery tasks and RecoverFailedNode messages came before
C30_OneMaster ==
  phase = "serving"
    => /\ Cardinality(Labelled("master")) = 1
       /\ t38_master_connection \in Labelled("master")

(***************************************************************************)
(* Several callers report a failure to the supervisor at the same time.    *)
(***************************************************************************)
Reporters == 1..NumReporters

\* the cluster with every instance up at start-up, and the callers idle
InitConcurrent ==
  /\ phase = "startup"
  /\ t38_nodes = EmptyNodes
  /\ t38_master_connection = NoNode
  /\ rx = <<>>
  /\ reply = [c \in Reporters |-> "idle"]
  /\ tasks = {}
  /\ lastPromoted = NoNode
  /\ lastAnswer = NoAnswer
  /\ reinserted = {}
  /\ NoScheduler
  /\ NoCommand /\ NoRequests /\ NoIngestor /\ NoServices
  /\ status = [n \in Instances |-> "up"]
  /\ follows = [n \in Instances |-> IF n = InstanceList[1] THEN NoNode ELSE InstanceList[1]]
  /\ budget = MaxFaultsConcurrent
  /\ t38_config_file = NoFile
  /\ nodeOrder \in Orders

NextConcurrent ==
  \/ Startup
  \/ HandleGetConnection
  \/ HandleRecoverFailedNode
  \/ \E t \in tasks : RecoverProbe(t)
  \/ \E t \in tasks : RecoverConnect(t)
  \/ \E t \in tasks : RecoverFollow(t)
  \/ \E c \in Reporters : Call(c, TRUE)
  \/ \E n \in Instances : Kill(n)
  \/ \E n \in Instances : Revive(n)
  \/ \E n \in Instances : Loaded(n)

SpecConcurrent == InitConcurrent /\ [][NextConcurrent]_vars

\* a further GetConnection with an error waits behind the head of the channel
ReportedAgain ==
  \E k \in 2..Len(rx) : rx[k].type = "GetConnection" /\ rx[k].error

\* C31: of several queued GetConnection messages that report the failed
\* master, the first one promotes a reachable replica and starts one recovery
\* task; the message handled after it, while the promoted node still answers,
\* promotes nothing, starts no task and is answered with a connection to the
\* promoted node
C31_OnePromotionPerFailure ==
  [][/\ (ForcedCall /\ ReportedAgain /\ MasterUnreachable
           /\ \E n \in Instances : ReachableReplica(n))
         => /\ lastAnswer'.promoted
            /\ Cardinality(tasks') = Cardinality(tasks) + 1
     /\ (ForcedCall /\ lastAnswer.promoted /\ CmdOk(lastPromoted))
         => /\ ~lastAnswer'.promoted
            /\ tasks' = tasks
            /\ lastAnswer'.got = lastPromoted]_vars

(***************************************************************************)
(* The re-insertion of a recovered node.                                   *)
(***************************************************************************)
\* C32: when the supervisor handles RecoverFailedNode and inserts the node as
\* an active replica, the instance follows the node of the stored master
\* connection, which is labelled master
C32_ReinsertedFollowsMaster ==
  [][HandleRecoverFailedNode
       => /\ follows[Head(rx).node] = t38_master_connection
          /\ t38_master_connection \in Labelled("master")]_vars

(***************************************************************************)
(* A forced call whose master answers.                                     *)
(***************************************************************************)
\* C33: when GetConnection with an error is handled and the node of the stored
\* master connection, the one node labelled master, accepts a connection, the
\* caller gets a connection to that node, and the labels of the nodes, the
\* roles of the instances, the file and the recovery tasks stay as they are
C33_MasterAnswersNothingChanges ==
  [][(ForcedCall /\ Labelled("master") = {t38_master_connection}
        /\ CanConnect(t38_master_connection))
       => /\ lastAnswer'.got = t38_master_connection
          /\ t38_master_connection' = t38_master_connection
          /\ ~lastAnswer'.promoted
          /\ UNCHANGED <<t38_nodes, follows, t38_config_file, tasks>>]_vars

(***************************************************************************)
(* The two key sets of the scheduler.                                      *)
(***************************************************************************)
\* C34: no key index is at once in active_api_keys and in invalid_api_keys,
\* whatever the order of InvalidApiKey messages, probes and ValidApipKey
\* messages
C34_ActiveQuarantinedDisjoint ==
  active_api_keys \cap invalid_api_keys = {}

(***************************************************************************)
(* The FOLLOW attempts of one recovery task.                               *)
(***************************************************************************)
\* C40: a recovery task sends FOLLOW at most COUNT_ATTEMPTS_RECOVER times: a
\* task that sends it has had fewer than COUNT_ATTEMPTS_RECOVER failed attempts
C40_FollowAttemptsBounded ==
  [][\A t \in tasks : (t.pc = "follow" /\ t \notin tasks')
                         => t.i + 1 <= COUNT_ATTEMPTS_RECOVER]_vars

(***************************************************************************)
(* The track of the device in the fallback.                                *)
(***************************************************************************)
\* C37: when the fallback ends without an error and the device has a track,
\* every answer of the LBS farther from the latest record of the track than
\* min(MAX_DISTANCE, MAX_SCOOTER_SPEED * hours) is among the outliers removed
\* before the estimate
C37_TrackOutliersRemoved ==
  [][(loc.pc = "fallback" /\ loc'.pc = "done" /\ ~loc'.lbs_failed /\ loc.wifi_track.some)
       => check_point_by_track(loc.wifi_track, loc'.responses) \subseteq loc'.lbs_outliers]_vars

(***************************************************************************)
(* detect_outliers on one and on three or more records.                    *)
(***************************************************************************)
\* the one record found lies farther than max_distance_cell from the anchor
FarSingle(q) ==
  /\ Cardinality(Found(q)) = 1
  /\ q.anchor # 0
  /\ \E m \in Found(q) : Distance(q.tls[m].point, q.anchor) > max_distance_cell

\* C38: when one record is found and it lies farther than max_distance_cell
\* from the anchor, the record is an outlier and the LBS is not asked, whether
\* the LBS is enabled or not; the LBS is asked about a single record only when
\* the LBS is enabled and the record is not such an outlier
C38_SingleFarFromCell ==
  [][/\ (loc.pc = "local" /\ loc'.pc = "done" /\ FarSingle(loc'))
         => (Found(loc') \subseteq loc'.outliers /\ ~loc'.probed)
     /\ (loc.pc = "local" /\ loc'.pc = "probe" /\ Cardinality(Found(loc')) = 1)
         => (loc'.enabled /\ ~FarSingle(loc'))]_vars

\* the calls of detect_outliers on three or more records
InitOutliers ==
  /\ NoSupervisor
  /\ NoScheduler
  /\ NoCommand /\ NoRequests /\ NoIngestor
  /\ NoTracks /\ NoCache /\ NoFallback /\ NoLocate
  /\ NoTransmitter /\ NoMac /\ NoOnline
  /\ \E n \in 3..MaxCandidates :
        \E points \in [1..n -> 1..MaxPlace], anchor \in (1..MaxPlace) \cup {0} :
           det = [pc |-> "called", n |-> n, points |-> points, anchor |-> anchor,
                  outliers |-> {}]

NextOutliers == DetectOutliers

SpecOutliers == InitOutliers /\ [][NextOutliers]_vars

\* the records farther than max_distance_cell from the anchor, none if these
\* are all records
FarFromCell(d) ==
  LET far == {i \in 1..d.n : Distance(d.points[i], d.anchor) > max_distance_cell}
  IN  IF d.anchor = 0 \/ far = 1..d.n THEN {} ELSE far

\* the clusters of DBSCAN on the records the cell leaves
ClustersOf(d) ==
  LET c == DBSCAN_cluster((1..d.n) \ FarFromCell(d), d.points,
                          locator_max_distance_in_cluster).clusters
  IN  {c[k] : k \in DOMAIN c}

\* C39: the outliers among three or more records are exactly the records
\* farther than max_distance_cell from the first anchor (none, if these are
\* all records) and every other record outside a largest cluster of DBSCAN
\* with epsilon max_distance_in_cluster and min_pts 0
C39_OutliersOfMany ==
  det.pc = "returned" =>
    \E L \in ClustersOf(det) \cup {{}} :
       /\ ClustersOf(det) # {} => L \in ClustersOf(det)
       /\ \A K \in ClustersOf(det) : Cardinality(K) <= Cardinality(L)
       /\ det.outliers = FarFromCell(det) \cup (((1..det.n) \ FarFromCell(det)) \ L)

\* a record the cell discards, a cluster that is not the main cluster, and a
\* main cluster
C39_Witness ==
  /\ det.pc = "returned"
  /\ FarFromCell(det) # {}
  /\ \E K \in ClustersOf(det) : K \subseteq det.outliers
  /\ det.outliers # 1..det.n

(***************************************************************************)
(* Specification and property of the online workers.                       *)
(***************************************************************************)
\* every worker has received a report with the access point, whose record is
\* absent or holds one observation
InitOnline ==
  /\ NoSupervisor
  /\ NoScheduler
  /\ NoCommand /\ NoRequests /\ NoIngestor
  /\ NoTracks /\ NoCache /\ NoFallback /\ NoLocate
  /\ NoTransmitter /\ NoMac /\ NoDetect
  /\ wifi \in {NoTransmitterLocation} \cup {TransmitterLocation_new(o) : o \in ReportObservations}
  /\ \E os \in [Workers -> ReportObservations] :
        online = [start |-> wifi.total_weight, worker |-> [w \in Workers |-> Worker_new(os[w])]]

NextOnline ==
  \/ \E w \in Workers, ok \in BOOLEAN : OnlineLookup(w, ok)
  \/ \E w \in Workers, ok \in BOOLEAN : OnlineSet(w, ok)

SpecOnline == InitOnline /\ [][NextOnline]_vars

\* the sum of the weights of the observations of the workers 1..n
RECURSIVE WeightOf(_)
WeightOf(n) == IF n = 0 THEN f64(0) ELSE Add(WeightOf(n - 1), f64(online.worker[n].o.weight))

\* C35: once every worker has written the record of the access point back,
\* the total weight of the record has grown by the sum of the weights of
\* their observations
C35_NoLostUpdate ==
  (\A w \in Workers : online.worker[w].pc = "done")
    => wifi.total_weight = Add(online.start, WeightOf(NumWorkers))

(***************************************************************************)
(* The record of the access point and the batch ingestor.                  *)
(***************************************************************************)
\* C36: the observation of a report, of weight 1, is added to the record of
\* the access point at most once: the total weight of the record is at most
\* the number of reports, also when a run ends with an error after
\* set_wifi_one and a later run meets the same reports
C36_AppliedAtMostOnce ==
  ~Less(f64(MaxReports), wifi.total_weight)

====
